---- MODULE Spec2Model ----
(***************************************************************************)
(* Model of the equidistant-letter-sequence (ELS) search of the Astrian    *)
(* Oracular System: cleanText, performElsSearchWithSkipAndDirection and    *)
(* performOmnipresentElsSearch (hooks, src/unnamed/part_003) and           *)
(* AstrianEngine.findELS (services, src/unnamed/part_004); of the letter   *)
(* network HebrewAlphabetNetwork (src/src/dataModels.ts); and of the       *)
(* significance scorer identifySignificantElsFindings (hooks).             *)
(*                                                                         *)
(* A string is a sequence of UTF-16 code units (integers).  Positions are  *)
(* 0-based as in the code; s[i] of the code is CharAt(s, i) here.          *)
(***************************************************************************)
EXTENDS Integers, Sequences, FiniteSets, TLC

\* ------------------------------------------------------------------ bounds
MaxTextLen == 5
MaxKeywordLen == 2
MaxSkipArg == 2
MaxFindTextLen == 4
MaxTermLen == 2

\* ------------------------------------------------- characters and strings
\* The regular expression of cleanText keeps the code units U+05D0..U+05EA.
HebrewFirst == 1488
HebrewLast == 1514

\* Code units the inputs are drawn from: alef, bet, full stop.
TextChars == {1488, 1489, 46}
KeywordChars == {1488, 1489, 46}

\* The six letters alef bet gimel alef bet gimel and the keywords read in
\* it, and three keywords of three code units.
ExampleText == <<1488, 1489, 1490, 1488, 1489, 1490>>
ExampleKeywords ==
    {<<1488, 1489>>, <<1488, 1490>>,
     <<1488, 1489, 1488>>, <<1488, 1488, 1488>>, <<1488, 46, 1489>>}

\* Inputs of findELS: alef, bet and space for the text, letters for the
\* search term, and the seeds none, alef, bet, space.
FindTextChars == {1488, 1489, 32}
FindTermChars == {1488, 1489}
FindSeeds == {<<>>, <<1488>>, <<1489>>, <<32>>}

\* Reading past the end of a JavaScript string yields undefined.
Undefined == -1

SeqsUpTo(S, n) == UNION {[1..k -> S] : k \in 0..n}

CharAt(s, i) == IF i >= 0 /\ i < Len(s) THEN s[i + 1] ELSE Undefined

IsHebrewLetter(c) == c >= HebrewFirst /\ c <= HebrewLast

\* String.prototype.toLowerCase on one code unit (Latin capitals only; the
\* Hebrew block has no case).
ToLowerCase(c) == IF c >= 65 /\ c <= 90 THEN c + 32 ELSE c

cleanTextKeepAll(t) == [k \in 1..Len(t) |-> ToLowerCase(t[k])]

\* text.replace(/[^א-ת]/g, '').toLowerCase()
cleanText(t) ==
    LET kept == SelectSeq(t, IsHebrewLetter)
    IN  [k \in 1..Len(kept) |-> ToLowerCase(kept[k])]

\* ---------------------------------- performElsSearchWithSkipAndDirection
Directions == {"forward", "backward"}

\* The argument guard: !text || !keyword || skip === 0 (the typeof and
\* Number.isInteger tests hold of every string and integer).
InvalidArgumentsNoSkipTest(t, kw, sk) == Len(t) = 0 \/ Len(kw) = 0

InvalidArguments(t, kw, sk) == Len(t) = 0 \/ Len(kw) = 0 \/ sk = 0

StepAlwaysForward(sk, dir) == sk

\* const step = direction === 'forward' ? skip : -skip
StepOf(sk, dir) == IF dir = "forward" THEN sk ELSE -sk

RECURSIVE ExtendNoCompare(_, _, _, _, _, _)
ExtendNoCompare(ct, ck, step, keywordIndex, currentTextIndex, currentSequence) ==
    IF keywordIndex < Len(ck) /\ currentTextIndex >= 0 /\ currentTextIndex < Len(ct)
    THEN ExtendNoCompare(ct, ck, step, keywordIndex + 1,
                         currentTextIndex + step,
                         Append(currentSequence, currentTextIndex))
    ELSE <<keywordIndex, currentSequence>>

\* The while loop extending one candidate; yields the pair
\* <<keywordIndex, currentSequence>> the loop ends with.
RECURSIVE ExtendSequence(_, _, _, _, _, _)
ExtendSequence(ct, ck, step, keywordIndex, currentTextIndex, currentSequence) ==
    IF keywordIndex < Len(ck) /\ currentTextIndex >= 0 /\ currentTextIndex < Len(ct)
    THEN IF CharAt(ct, currentTextIndex) = CharAt(ck, keywordIndex)
         THEN ExtendSequence(ct, ck, step, keywordIndex + 1,
                             currentTextIndex + step,
                             Append(currentSequence, currentTextIndex))
         ELSE <<keywordIndex, currentSequence>>
    ELSE <<keywordIndex, currentSequence>>

AcceptPartial(ct, ck, step, i) ==
    IF CharAt(ct, i) # Undefined /\ CharAt(ct, i) = CharAt(ck, 0)
    THEN <<ExtendSequence(ct, ck, step, 1, i + step, <<i>>)[2]>>
    ELSE <<>>

\* The attempt at start position i: the sequences it adds to foundSequences.
AttemptAt(ct, ck, step, i) ==
    IF CharAt(ct, i) # Undefined /\ CharAt(ct, i) = CharAt(ck, 0)
    THEN LET r == ExtendSequence(ct, ck, step, 1, i + step, <<i>>)
         IN  IF r[1] = Len(ck) THEN <<r[2]>> ELSE <<>>
    ELSE <<>>

\* The for loop over the start positions, from position i on.
RECURSIVE ScanLoop(_, _, _, _, _, _)
ScanLoop(ct, ck, step, dir, i, foundSequences) ==
    IF (IF dir = "forward" THEN i < Len(ct) ELSE i >= 0)
    THEN ScanLoop(ct, ck, step, dir,
                  i + (IF dir = "forward" THEN 1 ELSE -1),
                  foundSequences \o AttemptAt(ct, ck, step, i))
    ELSE foundSequences

ScanFirstSkippingZero(ct, dir) == IF dir = "forward" THEN 1 ELSE Len(ct) - 1

ScanFirst(ct, dir) == IF dir = "forward" THEN 0 ELSE Len(ct) - 1

\* Number of start positions the for loop visits.
ScanVisits(ct, dir) == Len(ct)

\* cleanText applied to one code unit read from a string: String.prototype
\* .replace on undefined raises a TypeError.
CleanUnitThrows(c) == c = Undefined

IsLetterUnit(c) == cleanText(<<c>>) # <<>>

\* The first position from i on whose unit is a letter or makes cleanText
\* throw, or Len(t) when there is none: the turns of the loop before it
\* leave the map and cleanedIndex alone.
NextMapUnit(t, i) ==
    LET Stops(p) == CleanUnitThrows(CharAt(t, p)) \/ IsLetterUnit(CharAt(t, p))
    IN  IF i < Len(t) /\ Stops(i) THEN i
        ELSE IF \E p \in (i + 1)..(Len(t) - 1) : Stops(p)
        THEN CHOOSE p \in (i + 1)..(Len(t) - 1) :
                 Stops(p) /\ \A q \in (i + 1)..(p - 1) : ~Stops(q)
        ELSE Len(t)

RECURSIVE BuildMapNoIncrement(_, _, _, _)
BuildMapNoIncrement(t, i, cleanedIndex, m) ==
    LET p == NextMapUnit(t, i) IN
    IF p < Len(t)
    THEN IF CleanUnitThrows(CharAt(t, p)) THEN [threw |-> TRUE, m |-> m]
         ELSE BuildMapNoIncrement(t, p + 1, cleanedIndex,
                       [k \in 1..(cleanedIndex + 1) |->
                            IF k = cleanedIndex + 1 THEN p ELSE m[k]])
    ELSE [threw |-> FALSE, m |-> m]

\* The loop filling cleanedToOriginalMap, from position i on: entry k
\* (0-based) of the map is held at position k + 1 of m; threw reports a
\* TypeError raised on the way.
RECURSIVE BuildMap(_, _, _, _)
BuildMap(t, i, cleanedIndex, m) ==
    LET p == NextMapUnit(t, i) IN
    IF p < Len(t)
    THEN IF CleanUnitThrows(CharAt(t, p)) THEN [threw |-> TRUE, m |-> m]
         ELSE BuildMap(t, p + 1, cleanedIndex + 1,
                       [k \in 1..(cleanedIndex + 1) |->
                            IF k = cleanedIndex + 1 THEN p ELSE m[k]])
    ELSE [threw |-> FALSE, m |-> m]

MapHasPastFirst(m, cleanedIdx) == cleanedIdx > 0 /\ cleanedIdx < Len(m)

MapHas(m, cleanedIdx) == cleanedIdx >= 0 /\ cleanedIdx < Len(m)

\* seq.forEach: the mapped indices of one sequence, unmapped ones left out.
RECURSIVE MapSequence(_, _)
MapSequence(m, seq) ==
    IF seq = <<>> THEN <<>>
    ELSE (IF MapHas(m, Head(seq)) THEN <<m[Head(seq) + 1]>> ELSE <<>>)
         \o MapSequence(m, Tail(seq))

\* foundSequences.forEach: a sequence is kept when all its indices mapped.
RECURSIVE MapAll(_, _)
MapAll(m, seqs) ==
    IF seqs = <<>> THEN <<>>
    ELSE LET originalSeq == MapSequence(m, Head(seqs))
         IN  (IF Len(originalSeq) = Len(Head(seqs)) THEN <<originalSeq>> ELSE <<>>)
             \o MapAll(m, Tail(seqs))

NoSequences == <<>>

\* The whole call.  ret is the returned list; found, map and visits record
\* the locals foundSequences and cleanedToOriginalMap and the number of start
\* positions scanned; log is the console output.
performElsSearchWithSkipAndDirection(t, kw, sk, dir) ==
    IF InvalidArguments(t, kw, sk)
    THEN [ret |-> NoSequences, found |-> NoSequences, map |-> <<>>,
          visits |-> 0, exit |-> "guard",
          log |-> <<"error: invalid arguments", "warn: requires non-zero skip">>]
    ELSE LET ck == cleanText(kw) IN
         IF Len(ck) = 0
         THEN [ret |-> NoSequences, found |-> NoSequences, map |-> <<>>,
               visits |-> 0, exit |-> "emptyKeyword",
               log |-> <<"warn: keyword empty after cleaning">>]
         ELSE LET ct == cleanText(t)
                  step == StepOf(sk, dir)
                  found == ScanLoop(ct, ck, step, dir, ScanFirst(ct, dir), <<>>)
                  b == BuildMap(t, 0, 0, <<>>)
              IN  IF b.threw
                  THEN [ret |-> NoSequences, found |-> found, map |-> b.m,
                        visits |-> ScanVisits(ct, dir), exit |-> "threw",
                        log |-> <<>>]
                  ELSE [ret |-> MapAll(b.m, found), found |-> found, map |-> b.m,
                        visits |-> ScanVisits(ct, dir), exit |-> "scanned",
                        log |-> <<>>]

\* ------------------------------------------- performOmnipresentElsSearch
\* if (!text || !keyword)
OmniInvalid(t, kw) == Len(t) = 0 \/ Len(kw) = 0

MaxSkipOfThird(t) == Len(cleanText(t)) \div 3

\* const maxSkip = Math.floor(cleanedTextLength / 2)
MaxSkipOf(t) == Len(cleanText(t)) \div 2

OmniBodyForwardOnly(t, kw, sk, findings) ==
    LET forwardFindings == performElsSearchWithSkipAndDirection(t, kw, sk, "forward").ret
    IN  IF Len(forwardFindings) > 0
        THEN Append(findings, [skip |-> sk, indices |-> forwardFindings])
        ELSE findings

OmniBodyPushAlways(t, kw, sk, findings) ==
    LET forwardFindings == performElsSearchWithSkipAndDirection(t, kw, sk, "forward").ret
        backwardFindings == performElsSearchWithSkipAndDirection(t, kw, sk, "backward").ret
    IN  Append(findings, [skip |-> sk, indices |-> forwardFindings \o backwardFindings])

\* One iteration of the skip loop: allFindings after the iteration for sk.
OmniBody(t, kw, sk, findings) ==
    LET forwardFindings == performElsSearchWithSkipAndDirection(t, kw, sk, "forward").ret
        backwardFindings == performElsSearchWithSkipAndDirection(t, kw, sk, "backward").ret
        combinedFindings == forwardFindings \o backwardFindings
    IN  IF Len(combinedFindings) > 0
        THEN Append(findings, [skip |-> sk, indices |-> combinedFindings])
        ELSE findings

\* An exception of either search of the iteration leaves the sweep.
OmniBodyThrows(t, kw, sk) ==
    \E dir \in Directions :
        performElsSearchWithSkipAndDirection(t, kw, sk, dir).exit = "threw"

\* The (skip, direction) pairs the loop evaluates.
SweepPairs(t) == (1..MaxSkipOf(t)) \X Directions

\* The loop body applied to search results already at hand, skip by skip.
RECURSIVE MergePairs(_, _, _, _)
MergePairs(res, sk, maxSkip, findings) ==
    IF sk <= maxSkip
    THEN LET combinedFindings == res[<<sk, "forward">>] \o res[<<sk, "backward">>]
         IN  MergePairs(res, sk + 1, maxSkip,
                        IF Len(combinedFindings) > 0
                        THEN Append(findings, [skip |-> sk, indices |-> combinedFindings])
                        ELSE findings)
    ELSE findings

\* ------------------------------------------------- AstrianEngine.findELS
\* The class of text.replace(/[\s.,/#!$%^&*;:{}=\-_`~()0-9]/g, ""):
\* white space, the listed punctuation and the digits.
FindStrippedUnits ==
    {9, 10, 11, 12, 13, 32, 160} \cup {46, 44, 47, 35, 33, 36, 37, 94, 38, 42, 59,
     58, 123, 125, 61, 45, 95, 96, 126, 40, 41} \cup (48..57)

FindCleanText(t) == SelectSeq(t, LAMBDA c : c \notin FindStrippedUnits)

\* data.hebrewMap: the standard value of a letter, 0 (the || 0) otherwise.
HebrewMapValue(c) ==
    CASE c = 1488 -> 1 [] c = 1489 -> 2 [] c = 1490 -> 3 [] c = 1491 -> 4
      [] c = 1492 -> 5 [] c = 1493 -> 6 [] c = 1494 -> 7 [] c = 1495 -> 8
      [] c = 1496 -> 9 [] c = 1497 -> 10 [] c = 1499 -> 20 [] c = 1498 -> 20
      [] c = 1500 -> 30 [] c = 1502 -> 40 [] c = 1501 -> 40 [] c = 1504 -> 50
      [] c = 1503 -> 50 [] c = 1505 -> 60 [] c = 1506 -> 70 [] c = 1508 -> 80
      [] c = 1507 -> 80 [] c = 1510 -> 90 [] c = 1509 -> 90 [] c = 1511 -> 100
      [] c = 1512 -> 200 [] c = 1513 -> 300 [] c = 1514 -> 400
      [] OTHER -> 0

\* hebrewText.split('').reduce((sum, char) => sum + (hebrewMap[char] || 0), 0)
RECURSIVE calculateHebraicStandard(_)
calculateHebraicStandard(t) ==
    IF t = <<>> THEN 0
    ELSE HebrewMapValue(Head(t)) + calculateHebraicStandard(Tail(t))

\* requiredSkip: null (here -1) without a seed, else the value of the seed.
NoRequiredSkip == -1
RequiredSkip(seed) ==
    IF Len(seed) > 0 THEN calculateHebraicStandard(seed) ELSE NoRequiredSkip

\* The skip range searched without a seed is 1..FindSkipEnd - 1.
FindSkipEnd == 200
FindMaxSkip(rs) == IF rs # NoRequiredSkip /\ rs # 0 THEN rs + 1 ELSE FindSkipEnd
FindMinSkipOne(rs) == 1

FindMinSkip(rs) == IF rs # NoRequiredSkip /\ rs # 0 THEN rs ELSE 1

\* Math.ceil(Math.sqrt(n))
CeilSqrt(n) == CHOOSE w \in 0..n : w * w >= n /\ (w = 0 \/ (w - 1) * (w - 1) < n)

\* The loop over the letters of the search term at one start position.
RECURSIVE FindRead(_, _, _, _, _, _, _, _)
FindRead(ct, term, sk, start, gridWidth, i, sequence, path) ==
    IF i < Len(term)
    THEN LET index == start + (i * sk) IN
         IF index >= Len(ct)
         THEN [possible |-> FALSE, sequence |-> sequence, path |-> path]
         ELSE FindRead(ct, term, sk, start, gridWidth, i + 1,
                       Append(sequence, CharAt(ct, index)),
                       Append(path, [row |-> index \div gridWidth,
                                     col |-> index % gridWidth]))
    ELSE [possible |-> TRUE, sequence |-> sequence, path |-> path]

\* The number the length of results is compared with after every push.
FindResultLimit == 5

RECURSIVE FindStartLoopLimitSix(_, _, _, _, _)
FindStartLoopLimitSix(ct, term, sk, start, res) ==
    IF start < Len(ct)
    THEN LET a == FindRead(ct, term, sk, start, CeilSqrt(Len(ct)), 0, <<>>, <<>>) IN
         IF a.possible /\ a.sequence = term
         THEN LET pushed == Append(res, [skip |-> sk, start |-> start, path |-> a.path])
              IN  IF Len(pushed) > FindResultLimit + 1
                  THEN [results |-> pushed, returned |-> TRUE, start |-> start]
                  ELSE FindStartLoopLimitSix(ct, term, sk, start + 1, pushed)
         ELSE FindStartLoopLimitSix(ct, term, sk, start + 1, res)
    ELSE [results |-> res, returned |-> FALSE, start |-> start]

\* The loop over the start positions of one skip, from start on: results
\* after it, whether the function returned inside it, and at which start.
RECURSIVE FindStartLoop(_, _, _, _, _)
FindStartLoop(ct, term, sk, start, res) ==
    IF start < Len(ct)
    THEN LET a == FindRead(ct, term, sk, start, CeilSqrt(Len(ct)), 0, <<>>, <<>>) IN
         IF a.possible /\ a.sequence = term
         THEN LET pushed == Append(res, [skip |-> sk, start |-> start, path |-> a.path])
              IN  IF Len(pushed) > FindResultLimit
                  THEN [results |-> pushed, returned |-> TRUE, start |-> start]
                  ELSE FindStartLoop(ct, term, sk, start + 1, pushed)
         ELSE FindStartLoop(ct, term, sk, start + 1, res)
    ELSE [results |-> res, returned |-> FALSE, start |-> start]

\* ------------------------------------------------------------------ state
VARIABLES
    text,         \* the text argument
    keyword,      \* the keyword argument
    pc,           \* position of the caller
    skipArg,      \* skip argument of the last direct search call
    dirArg,       \* direction argument of the last direct search call
    sres,         \* outcome of the last direct search call
    skip,         \* loop variable of the sweep
    allFindings,  \* allFindings of the sweep
    pending,      \* (skip, direction) pairs not yet evaluated
    pairRes,      \* results of the pairs evaluated so far
    parFindings,  \* the findings merged from pairRes
    searchTerm,     \* findELS: the searchTerm argument
    contextualSeed, \* findELS: the contextualSeed argument (empty: none)
    findSkip,       \* findELS: the loop variable skip
    results,        \* findELS: results
    capStop,        \* findELS: where the limit returned (skip, start), or none
    nodes,        \* network: the nodes Map, in insertion order
    netOut,       \* network: outcome of the last addNode / path call
    visited,      \* traversal: the visited set
    stack,        \* dfs: the frames of the recursion, innermost last
    queue,        \* breadthFirstSearch: the queue
    calls,        \* traversal: the arguments the callback was invoked with
    islandAt,     \* identifyAndCalculateIslands: position of nodes.forEach
    islands,      \* identifyAndCalculateIslands: the islands found so far
    scoreResults, \* identifySignificantElsFindings: the results argument
    scoreKeyword, \* identifySignificantElsFindings: the keyword argument
    findings,     \* identifySignificantElsFindings: the returned list
    corpora,            \* decodeCorporaFromImage: the payload
    compressedData,     \* decodeCorporaFromImage: compressedData
    decompressedData,   \* decodeCorporaFromImage: decompressedData
    finalCorpora        \* decodeCorporaFromImage: what the promise settles with

vars == <<text, keyword, pc, skipArg, dirArg, sres, skip, allFindings,
          pending, pairRes, parFindings,
          searchTerm, contextualSeed, findSkip, results, capStop,
          nodes, netOut, visited, stack, queue, calls, islandAt, islands,
          scoreResults, scoreKeyword, findings,
          corpora, compressedData, decompressedData, finalCorpora>>

searchVars == <<skipArg, dirArg, sres>>
omniVars == <<skip, allFindings>>
parVars == <<pending, pairRes, parFindings>>
findVars == <<searchTerm, contextualSeed, findSkip, results, capStop>>
travVars == <<visited, stack, queue, calls, islandAt, islands>>
netVars == <<nodes, netOut, travVars>>
sigVars == <<scoreResults, scoreKeyword, findings>>
stegVars == <<corpora, compressedData, decompressedData, finalCorpora>>

Texts == SeqsUpTo(TextChars, MaxTextLen) \cup {ExampleText}
Keywords == SeqsUpTo(KeywordChars, MaxKeywordLen) \cup ExampleKeywords
SkipArgs == (-MaxSkipArg)..MaxSkipArg

NoStop == [skip |-> 0, start |-> -1]

NoResult == [ret |-> <<>>, found |-> <<>>, map |-> <<>>, visits |-> 0,
             exit |-> "none", log |-> <<>>]

NoOut == [op |-> "none"]

\* No traversal is running.
TravIdle ==
    /\ visited = {}
    /\ stack = <<>>
    /\ queue = <<>>
    /\ calls = <<>>
    /\ islandAt = 0
    /\ islands = <<>>

\* A network just constructed: this.nodes = new Map().
NetIdle ==
    /\ nodes = <<>>
    /\ netOut = NoOut
    /\ TravIdle

\* No decoding has been started.
NoCorpora == [book |-> <<>>, text |-> <<>>]
StegIdle ==
    /\ corpora = NoCorpora
    /\ compressedData = <<>>
    /\ decompressedData = <<>>
    /\ finalCorpora = NoCorpora

\* identifySignificantElsFindings has not been called.
SigIdle ==
    /\ scoreResults = <<>>
    /\ scoreKeyword = <<>>
    /\ findings = <<>>

Init ==
    /\ text \in Texts
    /\ keyword \in Keywords
    /\ pc = "idle"
    /\ skipArg = 0
    /\ dirArg = "forward"
    /\ sres = NoResult
    /\ skip = 0
    /\ allFindings = <<>>
    /\ pending = {}
    /\ pairRes = <<>>
    /\ parFindings = <<>>
    /\ searchTerm = <<>>
    /\ contextualSeed = <<>>
    /\ findSkip = 0
    /\ results = <<>>
    /\ capStop = NoStop
    /\ NetIdle
    /\ SigIdle
    /\ StegIdle

\* A direct call of performElsSearchWithSkipAndDirection.
CallSearch ==
    /\ pc = "idle"
    /\ \E sk \in SkipArgs, dir \in Directions :
          /\ skipArg' = sk
          /\ dirArg' = dir
          /\ sres' = performElsSearchWithSkipAndDirection(text, keyword, sk, dir)
    /\ pc' = "searched"
    /\ UNCHANGED <<stegVars, netVars, sigVars, text, keyword, omniVars, parVars, findVars>>

\* performOmnipresentElsSearch is entered: the guard, then skip = 1.
OmniCall ==
    /\ pc = "idle"
    /\ allFindings' = <<>>
    /\ IF OmniInvalid(text, keyword)
       THEN pc' = "omniDone" /\ skip' = skip
       ELSE pc' = "omniLoop" /\ skip' = 1
    /\ UNCHANGED <<stegVars, netVars, sigVars, text, keyword, searchVars, parVars, findVars>>

\* One iteration of for (skip = 1; skip <= maxSkip; skip++).
OmniIter ==
    /\ pc = "omniLoop"
    /\ skip <= MaxSkipOf(text)
    /\ IF OmniBodyThrows(text, keyword, skip)
       THEN pc' = "omniThrew" /\ UNCHANGED omniVars
       ELSE /\ allFindings' = OmniBody(text, keyword, skip, allFindings)
            /\ skip' = skip + 1
            /\ pc' = pc
    /\ UNCHANGED <<stegVars, netVars, sigVars, text, keyword, searchVars, parVars, findVars>>

\* The loop condition fails: return allFindings.
OmniReturn ==
    /\ pc = "omniLoop"
    /\ skip > MaxSkipOf(text)
    /\ pc' = "omniDone"
    /\ UNCHANGED <<stegVars, netVars, sigVars, text, keyword, searchVars, omniVars, parVars, findVars>>

\* The same sweep with the order of the searches left open: the pairs of
\* the loop are evaluated one at a time in any order.
ParCall ==
    /\ pc = "omniDone"
    /\ IF OmniInvalid(text, keyword)
       THEN pc' = "parDone" /\ pending' = {} /\ pairRes' = <<>>
       ELSE /\ pc' = "par"
            /\ pending' = SweepPairs(text)
            /\ pairRes' = [p \in SweepPairs(text) |-> <<>>]
    /\ parFindings' = <<>>
    /\ UNCHANGED <<stegVars, netVars, sigVars, text, keyword, searchVars, omniVars, findVars>>

ParEval ==
    /\ pc = "par"
    /\ \E p \in pending :
          /\ pairRes' = [pairRes EXCEPT ![p] =
                performElsSearchWithSkipAndDirection(text, keyword, p[1], p[2]).ret]
          /\ pending' = pending \ {p}
    /\ UNCHANGED <<stegVars, netVars, sigVars, text, keyword, pc, searchVars, omniVars, parFindings, findVars>>

ParMerge ==
    /\ pc = "par"
    /\ pending = {}
    /\ parFindings' = MergePairs(pairRes, 1, MaxSkipOf(text), <<>>)
    /\ pc' = "parDone"
    /\ UNCHANGED <<stegVars, netVars, sigVars, text, keyword, searchVars, omniVars, pending, pairRes, findVars>>

Next ==
    \/ CallSearch
    \/ OmniCall
    \/ OmniIter
    \/ OmniReturn
    \/ ParCall
    \/ ParEval
    \/ ParMerge

Spec == Init /\ [][Next]_vars

\* ------------------------------------------------ the findELS specification
FindTexts == SeqsUpTo(FindTextChars, MaxFindTextLen)
FindTerms == SeqsUpTo(FindTermChars, MaxTermLen)

InitFind ==
    /\ text \in FindTexts
    /\ searchTerm \in FindTerms
    /\ contextualSeed \in FindSeeds
    /\ pc = "idle"
    /\ keyword = <<>>
    /\ skipArg = 0
    /\ dirArg = "forward"
    /\ sres = NoResult
    /\ skip = 0
    /\ allFindings = <<>>
    /\ pending = {}
    /\ pairRes = <<>>
    /\ parFindings = <<>>
    /\ findSkip = 0
    /\ results = <<>>
    /\ capStop = NoStop
    /\ NetIdle
    /\ SigIdle
    /\ StegIdle

\* findELS is entered: the early returns, then skip = minSkip.
FindCall ==
    /\ pc = "idle"
    /\ results' = <<>>
    /\ capStop' = NoStop
    /\ IF \/ Len(searchTerm) = 0 \/ Len(text) = 0
          \/ Len(FindCleanText(text)) = 0
          \/ RequiredSkip(contextualSeed) = 0
       THEN pc' = "findDone" /\ findSkip' = findSkip
       ELSE /\ pc' = "findLoop"
            /\ findSkip' = FindMinSkip(RequiredSkip(contextualSeed))
    /\ UNCHANGED <<stegVars, netVars, sigVars, text, keyword, searchVars, omniVars, parVars,
                   searchTerm, contextualSeed>>

\* One iteration of for (skip = minSkip; skip < maxSkip; skip++): the loop
\* over the start positions, which returns when the limit is passed.
FindIter ==
    /\ pc = "findLoop"
    /\ findSkip < FindMaxSkip(RequiredSkip(contextualSeed))
    /\ LET r == FindStartLoop(FindCleanText(text), searchTerm, findSkip, 0, results)
       IN  /\ results' = r.results
           /\ IF r.returned
              THEN /\ pc' = "findDone"
                   /\ capStop' = [skip |-> findSkip, start |-> r.start]
                   /\ findSkip' = findSkip
              ELSE /\ pc' = pc
                   /\ capStop' = capStop
                   /\ findSkip' = findSkip + 1
    /\ UNCHANGED <<stegVars, netVars, sigVars, text, keyword, searchVars, omniVars, parVars,
                   searchTerm, contextualSeed>>

\* The skip loop ends: return results.
FindReturn ==
    /\ pc = "findLoop"
    /\ findSkip >= FindMaxSkip(RequiredSkip(contextualSeed))
    /\ pc' = "findDone"
    /\ UNCHANGED <<stegVars, netVars, sigVars, text, keyword, searchVars, omniVars, parVars, findVars>>

NextFind ==
    \/ FindCall
    \/ FindIter
    \/ FindReturn

SpecFind == InitFind /\ [][NextFind]_vars

\* ---------------------------------------------------- vocabulary of claims
Abs(x) == IF x < 0 THEN -x ELSE x

\* The letters of a string, in order (its normalized form).
LettersOf(t) == SelectSeq(t, IsHebrewLetter)

AllNonLetters(t) == \A k \in 1..Len(t) : ~IsHebrewLetter(t[k])

\* Normalized index of original position p: the letters before p.
NormIdx(t, p) == Cardinality({q \in 0..(p - 1) : IsHebrewLetter(CharAt(t, q))})

\* Original position of the letter with normalized index n.
LetterPos(t, n) ==
    CHOOSE p \in 0..(Len(t) - 1) : IsHebrewLetter(CharAt(t, p)) /\ NormIdx(t, p) = n

\* Reading ck out of ct from start, every step-th character, within bounds.
Reads(ct, ck, start, step) ==
    \A j \in 0..(Len(ck) - 1) :
        LET q == start + j * step
        IN  q >= 0 /\ q < Len(ct) /\ ct[q + 1] = ck[j + 1]

SignedStep == IF dirArg = "forward" THEN skipArg ELSE -skipArg

StrictlyIncreasing(q) == \A k \in 1..(Len(q) - 1) : q[k] < q[k + 1]
StrictlyDecreasing(q) == \A k \in 1..(Len(q) - 1) : q[k] > q[k + 1]

Firsts(f) == [k \in 1..Len(f) |-> f[k][1]]

\* ----------------------------------------------------------------- claims
\* C1: the normalized-to-original index map built by the search has as many
\* entries as the normalized text has characters, is strictly increasing,
\* and every entry is the position of a letter of the original text.
C1_IndexMapMatchesNormalizedText ==
    (pc = "searched" /\ sres.exit = "scanned") =>
        /\ Len(sres.map) = Len(LettersOf(text))
        /\ StrictlyIncreasing(sres.map)
        /\ \A k \in 1..Len(sres.map) :
              /\ sres.map[k] >= 0 /\ sres.map[k] < Len(text)
              /\ IsHebrewLetter(CharAt(text, sres.map[k]))

C1_Witness ==
    /\ pc = "searched" /\ sres.exit = "scanned"
    /\ Len(sres.map) >= 2
    /\ Len(sres.map) < Len(text)

\* C2 as stated: every returned position sequence is as long as the keyword
\* that was passed in.
C2_LengthOfRawKeyword ==
    pc = "searched" =>
        \A k \in 1..Len(sres.ret) : Len(sres.ret[k]) = Len(keyword)

\* C2 amended: every returned position sequence is as long as the
\* normalized keyword (the letters of the keyword).
C2_LengthOfNormalizedKeyword ==
    pc = "searched" =>
        \A k \in 1..Len(sres.ret) : Len(sres.ret[k]) = Len(LettersOf(keyword))

C2_Witness ==
    /\ pc = "searched"
    /\ Len(sres.ret) >= 1
    /\ Len(LettersOf(keyword)) >= 2
    /\ Len(LettersOf(keyword)) < Len(keyword)

\* C3: soundness.  Every returned sequence of original positions spells the
\* normalized keyword, consists of letter positions inside the text, and its
\* normalized indices are equidistant by the skip magnitude.
C3_SearchSound ==
    pc = "searched" =>
        \A k \in 1..Len(sres.ret) :
            LET q == sres.ret[k] IN
            /\ \A j \in 1..Len(q) :
                  /\ q[j] >= 0 /\ q[j] < Len(text)
                  /\ IsHebrewLetter(CharAt(text, q[j]))
            /\ [j \in 1..Len(q) |-> CharAt(text, q[j])] = LettersOf(keyword)
            /\ \E d \in {-1, 1} :
                  \A j \in 1..(Len(q) - 1) :
                      NormIdx(text, q[j + 1]) - NormIdx(text, q[j]) = d * Abs(skipArg)

C3_Witness ==
    /\ pc = "searched"
    /\ Len(sres.ret) >= 1
    /\ Len(sres.ret[1]) >= 2
    /\ Abs(skipArg) = 2
    /\ Len(LettersOf(text)) < Len(text)

\* C4: completeness for one skip and direction.  The accepted sequences are
\* exactly the readings of the keyword from every start position at which it
\* reads out, one per start, forward results in increasing start order, and
\* the returned positions are those readings in original coordinates; the
\* six-letter example gives [0,1] then [3,4].
C4_SearchComplete ==
    /\ (pc = "searched" /\ skipArg # 0 /\ LettersOf(keyword) # <<>>) =>
          LET ct == LettersOf(text)
              ck == LettersOf(keyword)
              starts == {s \in 0..(Len(ct) - 1) : Reads(ct, ck, s, SignedStep)}
              f == sres.found
          IN  /\ Len(f) = Cardinality(starts)
              /\ {f[k][1] : k \in 1..Len(f)} = starts
              /\ \A k \in 1..Len(f) :
                    f[k] = [j \in 1..Len(ck) |-> f[k][1] + (j - 1) * SignedStep]
              /\ (dirArg = "forward" => StrictlyIncreasing(Firsts(f)))
              /\ Len(sres.ret) = Len(f)
              /\ \A k \in 1..Len(f) :
                    sres.ret[k] = [j \in 1..Len(ck) |-> LetterPos(text, f[k][j])]
    /\ (/\ pc = "searched" /\ text = ExampleText /\ keyword = <<1488, 1489>>
        /\ skipArg = 1 /\ dirArg = "forward")
          => sres.ret = << <<0, 1>>, <<3, 4>> >>

C4_Witness ==
    /\ pc = "searched" /\ text = ExampleText /\ keyword = <<1488, 1489>>
    /\ skipArg = 1 /\ dirArg = "forward"
    /\ Len(sres.ret) = 2

\* C5 as stated: whatever the direction, every accepted sequence of
\* normalized indices is strictly increasing, and the direction changes only
\* the order of the accepted sequences.
C5_AlwaysIncreasing ==
    (pc = "searched" /\ skipArg > 0) =>
        /\ \A k \in 1..Len(sres.found) : StrictlyIncreasing(sres.found[k])
        /\ {sres.found[k] : k \in 1..Len(sres.found)} =
              LET f == performElsSearchWithSkipAndDirection(text, keyword, skipArg, "forward").found
              IN  {f[k] : k \in 1..Len(f)}

\* C5 amended: the inner step is +skip in the forward direction and -skip
\* in the backward direction, so for a positive skip forward sequences are
\* strictly increasing and backward sequences strictly decreasing; the
\* start positions are scanned upwards (forward) or downwards (backward).
C5_StepFollowsDirection ==
    pc = "searched" =>
        /\ \A k \in 1..Len(sres.found) :
              LET q == sres.found[k] IN
              /\ \A j \in 1..(Len(q) - 1) : q[j + 1] - q[j] = SignedStep
              /\ (skipArg > 0 /\ dirArg = "forward") => StrictlyIncreasing(q)
              /\ (skipArg > 0 /\ dirArg = "backward") => StrictlyDecreasing(q)
        /\ (dirArg = "forward" => StrictlyIncreasing(Firsts(sres.found)))
        /\ (dirArg = "backward" => StrictlyDecreasing(Firsts(sres.found)))

C5_Witness ==
    /\ pc = "searched" /\ dirArg = "backward" /\ skipArg > 0
    /\ Len(sres.found) >= 2
    /\ Len(sres.found[1]) >= 2

C7_EmptyKeywordEmptyResult ==
    AllNonLetters(keyword) =>
        /\ pc = "searched" =>
              sres.ret = <<>> /\ sres.exit \in {"guard", "emptyKeyword"}
        /\ pc # "omniThrew"
        /\ allFindings = <<>>

C7_Witness ==
    /\ pc = "omniDone"
    /\ Len(keyword) > 0 /\ AllNonLetters(keyword)
    /\ MaxSkipOf(text) >= 2
    /\ \E k \in 1..Len(text) : text[k] \in {keyword[j] : j \in 1..Len(keyword)}

\* C8: the sweep result holds exactly the skips 1..floor(n/2) for which the
\* forward or the backward search finds a match, once each and ascending;
\* the entry of a skip is its forward matches followed by its backward
\* matches, and no entry ever has an empty match list.
C8_SweepSparseMap ==
    /\ \A k \in 1..Len(allFindings) : Len(allFindings[k].indices) > 0
    /\ \A k \in 1..(Len(allFindings) - 1) :
          allFindings[k].skip < allFindings[k + 1].skip
    /\ pc = "omniDone" =>
          LET n == Len(LettersOf(text))
              F(s, d) == performElsSearchWithSkipAndDirection(text, keyword, s, d).ret
              hit == {s \in 1..(n \div 2) :
                         F(s, "forward") # <<>> \/ F(s, "backward") # <<>>}
          IN  /\ Len(allFindings) = Cardinality(hit)
              /\ {allFindings[k].skip : k \in 1..Len(allFindings)} = hit
              /\ \A k \in 1..Len(allFindings) :
                    allFindings[k].indices =
                        F(allFindings[k].skip, "forward")
                            \o F(allFindings[k].skip, "backward")

C8_Witness ==
    /\ pc = "omniDone"
    /\ MaxSkipOf(text) >= 2
    /\ Len(allFindings) = 1
    /\ allFindings[1].skip = 2

FindMatches(ct, term, sk, start) ==
    \A i \in 0..(Len(term) - 1) :
        start + i * sk < Len(ct) /\ CharAt(ct, start + i * sk) = term[i + 1]

\* (skip, start) of a comes before that of b in the order of the scan.
ScanBefore(a, b) == a.skip < b.skip \/ (a.skip = b.skip /\ a.start < b.start)

\* The places the scan without a limit reports, over the skips it covers.
UncappedPlaces ==
    LET ct == FindCleanText(text)
        rs == RequiredSkip(contextualSeed)
    IN  IF Len(searchTerm) = 0 \/ Len(ct) = 0 \/ rs = 0 THEN {}
        ELSE {pl \in [skip : (IF rs = NoRequiredSkip THEN 1..(FindSkipEnd - 1) ELSE {rs}),
                      start : 0..(Len(ct) - 1)] :
                 FindMatches(ct, searchTerm, pl.skip, pl.start)}

PlaceOf(r) == [skip |-> r.skip, start |-> r.start]

\* results is a prefix, in scan order, of the list the scan without a limit
\* returns: ordered, made of true matches, and with no match left out
\* before its last entry (nor any at all when the limit did not stop it).
PrefixOfUncapped ==
    /\ \A k \in 1..(Len(results) - 1) : ScanBefore(results[k], results[k + 1])
    /\ \A k \in 1..Len(results) : PlaceOf(results[k]) \in UncappedPlaces
    /\ \A pl \in UncappedPlaces :
          (capStop = NoStop \/ ~ScanBefore(capStop, pl))
              => \E k \in 1..Len(results) : PlaceOf(results[k]) = pl

\* C10 as stated: the limit is tested between skip iterations (a scan it
\* stops has finished the start positions of its skip), the result is a
\* prefix of the unlimited result, and it is never longer than the limit.
C10_CeilingBetweenSkips ==
    pc = "findDone" =>
        /\ PrefixOfUncapped
        /\ Len(results) <= FindResultLimit
        /\ capStop # NoStop => capStop.start = Len(FindCleanText(text)) - 1

\* C10 amended: the limit is tested after every accepted match, inside the
\* scan of a skip; the caller gets a partial result, a prefix in scan order
\* of the unlimited result, of at most FindResultLimit + 1 entries, and a
\* scan the limit stopped returns exactly FindResultLimit + 1 entries, the
\* last one found at the place where it stopped.
C10_PartialPrefix ==
    /\ Len(results) <= FindResultLimit + 1
    /\ pc = "findDone" =>
          /\ PrefixOfUncapped
          /\ capStop # NoStop =>
                /\ Len(results) = FindResultLimit + 1
                /\ PlaceOf(results[Len(results)]) = capStop
          /\ capStop = NoStop => Len(results) <= FindResultLimit

C10_Witness ==
    /\ pc = "findDone"
    /\ capStop # NoStop
    /\ capStop.start < Len(FindCleanText(text)) - 1
    /\ \E pl \in UncappedPlaces : ScanBefore(capStop, pl) /\ pl.skip = capStop.skip

\* ======================================================= the letter network
\* HebrewAlphabetNetwork (src/src/dataModels.ts).  The nodes Map is the
\* sequence of its values in insertion order; a node is a record of its
\* letter, gematria and spelling (phonetic is never read).
MaxEdges == 3
MaxPathLen == 2

\* standardGematria: the entries in the order they are set.
standardGematriaData ==
    <<<<1488, 1>>, <<1489, 2>>, <<1490, 3>>, <<1491, 4>>, <<1492, 5>>,
      <<1493, 6>>, <<1494, 7>>, <<1495, 8>>, <<1496, 9>>, <<1497, 10>>,
      <<1499, 20>>, <<1500, 30>>, <<1502, 40>>, <<1504, 50>>, <<1505, 60>>,
      <<1506, 70>>, <<1508, 80>>, <<1510, 90>>, <<1511, 100>>, <<1512, 200>>,
      <<1513, 300>>, <<1514, 400>>, <<1498, 500>>, <<1501, 600>>, <<1503, 700>>,
      <<1507, 800>>, <<1509, 900>>>>

\* this.gematriaData.get(letter) || 0
standardGematria(l) ==
    IF \E k \in 1..Len(standardGematriaData) : standardGematriaData[k][1] = l
    THEN standardGematriaData[CHOOSE k \in 1..Len(standardGematriaData) :
                                  standardGematriaData[k][1] = l][2]
    ELSE 0

\* hebrewSpellings: the entries in the order they are set.
hebrewSpellings ==
    <<<<1488, <<1488, 1500, 1507>> >>, <<1489, <<1489, 1497, 1514>> >>,
      <<1490, <<1490, 1497, 1502, 1500>> >>, <<1491, <<1491, 1500, 1514>> >>,
      <<1492, <<1492, 1488>> >>, <<1493, <<1493, 1493>> >>,
      <<1494, <<1494, 1497, 1503>> >>, <<1495, <<1495, 1497, 1514>> >>,
      <<1496, <<1496, 1497, 1514>> >>, <<1497, <<1497, 1493, 1491>> >>,
      <<1499, <<1499, 1507>> >>, <<1500, <<1500, 1502, 1491>> >>,
      <<1502, <<1502, 1501>> >>, <<1504, <<1504, 1493, 1503>> >>,
      <<1505, <<1505, 1502, 1498>> >>, <<1506, <<1506, 1497, 1503>> >>,
      <<1508, <<1508, 1488>> >>, <<1510, <<1510, 1491, 1497>> >>,
      <<1511, <<1511, 1493, 1507>> >>, <<1512, <<1512, 1497, 1513>> >>,
      <<1513, <<1513, 1497, 1503>> >>, <<1514, <<1514, 1493>> >>,
      <<1498, <<1499, 1507>> >>, <<1501, <<1502, 1501>> >>,
      <<1503, <<1504, 1493, 1503>> >>, <<1507, <<1508, 1488>> >>,
      <<1509, <<1510, 1491, 1497>> >>>>

\* Map.get of an absent key yields undefined.
NoNode == [letter |-> Undefined]

\* this.nodes.has(letter)
has(ns, l) == \E k \in 1..Len(ns) : ns[k].letter = l

\* Position of a key in the insertion order (0: absent).
KeyIndex(ns, l) ==
    IF has(ns, l) THEN CHOOSE k \in 1..Len(ns) : ns[k].letter = l ELSE 0

\* getNode(letter): this.nodes.get(letter)
getNode(ns, l) == IF has(ns, l) THEN ns[KeyIndex(ns, l)] ELSE NoNode

addNodeOverwrite(ns, node) ==
    IF ~has(ns, node.letter)
    THEN [nodes |-> Append(ns, node), log |-> <<>>, exit |-> "returned"]
    ELSE [nodes |-> [ns EXCEPT ![KeyIndex(ns, node.letter)] = node],
          log |-> <<[level |-> "warn", letter |-> node.letter]>>,
          exit |-> "returned"]

\* addNode(node): set the key when it is absent, else console.warn.
addNode(ns, node) ==
    IF ~has(ns, node.letter)
    THEN [nodes |-> Append(ns, node), log |-> <<>>, exit |-> "returned"]
    ELSE [nodes |-> ns,
          log |-> <<[level |-> "warn", letter |-> node.letter]>>,
          exit |-> "returned"]

RECURSIVE PathLoopLastOnly(_, _, _, _)
PathLoopLastOnly(ns, letters, k, totalGematria) ==
    IF k > Len(letters)
    THEN [ret |-> totalGematria, log |-> <<>>, exit |-> "returned"]
    ELSE IF has(ns, letters[k])
         THEN PathLoopLastOnly(ns, letters, k + 1, getNode(ns, letters[k]).gematria)
         ELSE [ret |-> 0,
               log |-> <<[level |-> "warn", letter |-> letters[k]]>>,
               exit |-> "returned"]

RECURSIVE PathLoopPartialTotal(_, _, _, _)
PathLoopPartialTotal(ns, letters, k, totalGematria) ==
    IF k > Len(letters)
    THEN [ret |-> totalGematria, log |-> <<>>, exit |-> "returned"]
    ELSE IF has(ns, letters[k])
         THEN PathLoopPartialTotal(ns, letters, k + 1,
                                   totalGematria + getNode(ns, letters[k]).gematria)
         ELSE [ret |-> totalGematria,
               log |-> <<[level |-> "warn", letter |-> letters[k]]>>,
               exit |-> "returned"]

\* for (const letter of letters): add node.gematria, or console.warn and
\* return 0 at the first letter that is not a key.
RECURSIVE PathLoop(_, _, _, _)
PathLoop(ns, letters, k, totalGematria) ==
    IF k > Len(letters)
    THEN [ret |-> totalGematria, log |-> <<>>, exit |-> "returned"]
    ELSE IF has(ns, letters[k])
         THEN PathLoop(ns, letters, k + 1,
                       totalGematria + getNode(ns, letters[k]).gematria)
         ELSE [ret |-> 0,
               log |-> <<[level |-> "warn", letter |-> letters[k]]>>,
               exit |-> "returned"]

calculatePathGematria(ns, letters) == PathLoop(ns, letters, 1, 0)

\* -------------------------------------- the path-gematria specification
\* Letters of the paths and of the placeholder nodes: alef, bet, gimel, dalet.
PathLetters == {1488, 1489, 1490, 1491}
Paths == SeqsUpTo(PathLetters, MaxPathLen)

InitPath ==
    /\ text = <<>>
    /\ keyword = <<>>
    /\ pc = "idle"
    /\ skipArg = 0
    /\ dirArg = "forward"
    /\ sres = NoResult
    /\ skip = 0
    /\ allFindings = <<>>
    /\ pending = {}
    /\ pairRes = <<>>
    /\ parFindings = <<>>
    /\ searchTerm = <<>>
    /\ contextualSeed = <<>>
    /\ findSkip = 0
    /\ results = <<>>
    /\ capStop = NoStop
    /\ NetIdle
    /\ SigIdle
    /\ StegIdle

\* populateNetwork, one letter of allLetters.forEach: a placeholder node is
\* added for a letter that is not a key yet.
AddPlaceholder ==
    /\ pc = "idle"
    /\ \E letter \in PathLetters :
          /\ ~has(nodes, letter)
          /\ LET node == [letter |-> letter,
                          gematria |-> standardGematria(letter),
                          spelling |-> <<>>]
                 r == addNode(nodes, node)
             IN  /\ nodes' = r.nodes
                 /\ netOut' = [op |-> "addNode", arg |-> node, before |-> nodes,
                               log |-> r.log, exit |-> r.exit]
    /\ UNCHANGED <<stegVars, travVars, sigVars, text, keyword, pc, searchVars, omniVars, parVars, findVars>>

\* calculatePathGematria is called on a, on b and on a ++ b.
PathCall ==
    /\ pc = "idle"
    /\ \E a \in Paths, b \in Paths :
          netOut' = [op |-> "path", a |-> a, b |-> b,
                     ofA |-> calculatePathGematria(nodes, a),
                     ofB |-> calculatePathGematria(nodes, b),
                     ofAB |-> calculatePathGematria(nodes, a \o b)]
    /\ pc' = "pathDone"
    /\ UNCHANGED <<stegVars, nodes, travVars, sigVars, text, keyword, searchVars, omniVars, parVars, findVars>>

NextPath ==
    \/ AddPlaceholder
    \/ PathCall

SpecPath == InitPath /\ [][NextPath]_vars

\* ----------------------------------------------- the network specification
\* populateNetwork(spellings): the letters of the spellings in the order a
\* Set meets them, a placeholder node for each letter that is not a key,
\* then the spelling of each entry's node.
RECURSIVE SpellingLetters(_, _)
SpellingLetters(sp, k) ==
    IF k > Len(sp) THEN <<>>
    ELSE <<sp[k][1]>> \o sp[k][2] \o SpellingLetters(sp, k + 1)

\* Insertion order of a Set: every element once, at its first place.
SetOrder(s) ==
    LET firsts == {k \in 1..Len(s) : \A j \in 1..(k - 1) : s[j] # s[k]}
        place(k) == Cardinality({j \in firsts : j <= k})
    IN  [r \in 1..Cardinality(firsts) |-> s[CHOOSE k \in firsts : place(k) = r]]

RECURSIVE AddPlaceholders(_, _, _)
AddPlaceholders(ns, letters, k) ==
    IF k > Len(letters) THEN ns
    ELSE IF has(ns, letters[k])
         THEN AddPlaceholders(ns, letters, k + 1)
         ELSE AddPlaceholders(
                  addNode(ns, [letter |-> letters[k],
                               gematria |-> standardGematria(letters[k]),
                               spelling |-> <<>>]).nodes,
                  letters, k + 1)

RECURSIVE SetSpellings(_, _, _)
SetSpellings(ns, sp, k) ==
    IF k > Len(sp) THEN ns
    ELSE IF has(ns, sp[k][1])
         THEN SetSpellings([ns EXCEPT ![KeyIndex(ns, sp[k][1])].spelling = sp[k][2]],
                           sp, k + 1)
         ELSE SetSpellings(ns, sp, k + 1)

populateNetwork(ns, sp) ==
    SetSpellings(AddPlaceholders(ns, SetOrder(SpellingLetters(sp, 1)), 1),
                 sp, 1)

\* The exported network: standardGematria is the gematria data and
\* hebrewSpellings the spellings.
hebrewAlphabetNetwork == populateNetwork(<<>>, hebrewSpellings)

\* Letters of the nodes that addNode is called with: alef, bet, gimel.
NetLetters == {1488, 1489, 1490}

RECURSIVE EdgeCount(_, _)
EdgeCount(ns, k) ==
    IF k > Len(ns) THEN 0 ELSE Len(ns[k].spelling) + EdgeCount(ns, k + 1)

InitNet ==
    /\ text = <<>>
    /\ keyword = <<>>
    /\ pc = "idle"
    /\ skipArg = 0
    /\ dirArg = "forward"
    /\ sres = NoResult
    /\ skip = 0
    /\ allFindings = <<>>
    /\ pending = {}
    /\ pairRes = <<>>
    /\ parFindings = <<>>
    /\ searchTerm = <<>>
    /\ contextualSeed = <<>>
    /\ findSkip = 0
    /\ results = <<>>
    /\ capStop = NoStop
    /\ nodes \in {<<>>, hebrewAlphabetNetwork}
    /\ netOut = NoOut
    /\ TravIdle
    /\ SigIdle
    /\ StegIdle

\* addNode(node) with any letter and spelling (the spellings of all nodes
\* together hold at most MaxEdges letters).
AddNode ==
    /\ pc = "idle"
    /\ EdgeCount(nodes, 1) <= MaxEdges
    /\ \E letter \in NetLetters,
          spelling \in SeqsUpTo(NetLetters, MaxEdges - EdgeCount(nodes, 1)) :
          LET node == [letter |-> letter,
                       gematria |-> standardGematria(letter),
                       spelling |-> spelling]
              r == addNode(nodes, node)
          IN  /\ nodes' = r.nodes
              /\ netOut' = [op |-> "addNode", arg |-> node, before |-> nodes,
                            log |-> r.log, exit |-> r.exit]
    /\ UNCHANGED <<stegVars, travVars, sigVars, text, keyword, pc, searchVars, omniVars, parVars, findVars>>

\* Letters a traversal is started from: the keys and the letters addNode
\* is called with.
StartLetters == NetLetters \cup {nodes[k].letter : k \in 1..Len(nodes)}

\* dfs(startLetter, callback) is called with a new visited set: return when
\* the letter is not a key, else visit the node and enter the loop.
DfsCall ==
    /\ pc = "idle"
    /\ \E startLetter \in StartLetters :
          /\ netOut' = [op |-> "dfs", start |-> startLetter]
          /\ IF ~has(nodes, startLetter)
             THEN /\ pc' = "dfsDone"
                  /\ UNCHANGED <<stegVars, visited, stack, calls>>
             ELSE /\ pc' = "dfs"
                  /\ visited' = {startLetter}
                  /\ calls' = <<startLetter>>
                  /\ stack' = <<[letter |-> startLetter, at |-> 1]>>
    /\ UNCHANGED <<stegVars, nodes, queue, islandAt, islands, sigVars, text, keyword,
                   searchVars, omniVars, parVars, findVars>>

\* The innermost frame of the recursion and the letter its loop is at.
TopFrame == stack[Len(stack)]
TopSpelling == getNode(nodes, TopFrame.letter).spelling

AdvanceStuck(st) == st

\* The for-of loop of the innermost frame moves to the next letter.
Advance(st) == [st EXCEPT ![Len(st)].at = st[Len(st)].at + 1]

CallbackDropped(cs, l) == cs

\* callback(startNode): the letter of the node joins the recorded arguments
\* (in identifyAndCalculateIslands the callback adds it to island).
Callback(cs, l) == Append(cs, l)

\* One turn of the loop: dfs(nextLetter) finds a node not yet visited, visits
\* it and enters its loop.
DfsVisit ==
    /\ pc \in {"dfs", "islandDfs"}
    /\ Len(stack) > 0
    /\ TopFrame.at <= Len(TopSpelling)
    /\ LET nextLetter == TopSpelling[TopFrame.at]
       IN  /\ has(nodes, nextLetter)
           /\ nextLetter \notin visited
           /\ visited' = visited \cup {nextLetter}
           /\ calls' = Callback(calls, nextLetter)
           /\ stack' = Append(Advance(stack), [letter |-> nextLetter, at |-> 1])
    /\ UNCHANGED <<stegVars, nodes, netOut, queue, islandAt, islands, sigVars, text, keyword, pc,
                   searchVars, omniVars, parVars, findVars>>

\* One turn of the loop: dfs(nextLetter) returns at once, the letter is not
\* a key or is visited already.
DfsSkip ==
    /\ pc \in {"dfs", "islandDfs"}
    /\ Len(stack) > 0
    /\ TopFrame.at <= Len(TopSpelling)
    /\ LET nextLetter == TopSpelling[TopFrame.at]
       IN  /\ ~has(nodes, nextLetter) \/ nextLetter \in visited
           /\ stack' = Advance(stack)
    /\ UNCHANGED <<stegVars, nodes, netOut, visited, queue, calls, islandAt, islands,
                   sigVars, text, keyword, pc, searchVars, omniVars, parVars, findVars>>

\* The loop of the innermost frame is over: the call returns.  The outermost
\* call returns to the caller of dfs, which in identifyAndCalculateIslands
\* adds the island when it is not empty and moves to the next node.
DfsReturn ==
    /\ pc \in {"dfs", "islandDfs"}
    /\ Len(stack) > 0
    /\ TopFrame.at > Len(TopSpelling)
    /\ stack' = SubSeq(stack, 1, Len(stack) - 1)
    /\ IF Len(stack) > 1
       THEN UNCHANGED <<stegVars, pc, islandAt, islands>>
       ELSE IF pc = "dfs"
            THEN pc' = "dfsDone" /\ UNCHANGED <<stegVars, islandAt, islands>>
            ELSE /\ pc' = "islandLoop"
                 /\ islands' = IF Len(calls) > 0 THEN Append(islands, calls)
                               ELSE islands
                 /\ islandAt' = islandAt + 1
    /\ UNCHANGED <<stegVars, nodes, netOut, visited, queue, calls, sigVars, text, keyword,
                   searchVars, omniVars, parVars, findVars>>

\* breadthFirstSearch(startLetter, callback): return when the letter is not
\* a key, else the queue and the visited set hold the start letter.
BfsCall ==
    /\ pc = "idle"
    /\ \E startLetter \in StartLetters :
          /\ netOut' = [op |-> "bfs", start |-> startLetter]
          /\ IF ~has(nodes, startLetter)
             THEN /\ pc' = "bfsDone"
                  /\ UNCHANGED <<stegVars, visited, queue>>
             ELSE /\ pc' = "bfs"
                  /\ visited' = {startLetter}
                  /\ queue' = <<startLetter>>
    /\ UNCHANGED <<stegVars, nodes, stack, calls, islandAt, islands, sigVars, text, keyword,
                   searchVars, omniVars, parVars, findVars>>

\* for (const nextLetter of currentNode.spelling): a letter that is not
\* visited is added to visited and to the queue.
RECURSIVE Enqueue(_, _, _, _)
Enqueue(spelling, k, vis, q) ==
    IF k > Len(spelling) THEN [visited |-> vis, queue |-> q]
    ELSE IF spelling[k] \notin vis
         THEN Enqueue(spelling, k + 1, vis \cup {spelling[k]}, Append(q, spelling[k]))
         ELSE Enqueue(spelling, k + 1, vis, q)

\* One turn of while (queue.length > 0): the first letter leaves the queue,
\* the callback is invoked with getNode of it, and its spelling is read;
\* reading the spelling of undefined throws a TypeError.
BfsStep ==
    /\ pc = "bfs"
    /\ Len(queue) > 0
    /\ LET currentLetter == Head(queue)
           currentNode == getNode(nodes, currentLetter)
       IN  /\ calls' = Append(calls, currentNode.letter)
           /\ IF currentNode = NoNode
              THEN /\ pc' = "bfsThrew"
                   /\ queue' = Tail(queue)
                   /\ visited' = visited
              ELSE LET r == Enqueue(currentNode.spelling, 1, visited, Tail(queue))
                   IN  /\ pc' = pc
                       /\ queue' = r.queue
                       /\ visited' = r.visited
    /\ UNCHANGED <<stegVars, nodes, netOut, stack, islandAt, islands, sigVars, text, keyword,
                   searchVars, omniVars, parVars, findVars>>

\* The queue is empty: breadthFirstSearch returns.
BfsReturn ==
    /\ pc = "bfs"
    /\ Len(queue) = 0
    /\ pc' = "bfsDone"
    /\ UNCHANGED <<stegVars, netVars, sigVars, text, keyword, searchVars, omniVars, parVars, findVars>>

\* identifyAndCalculateIslands is entered: visited and islands are new Sets
\* (lettersInSpellings is filled and never read).
IslandsCall ==
    /\ pc = "idle"
    /\ pc' = "islandLoop"
    /\ netOut' = [op |-> "islands", result |-> <<>>]
    /\ visited' = {}
    /\ islands' = <<>>
    /\ islandAt' = 1
    /\ calls' = <<>>
    /\ UNCHANGED <<stegVars, nodes, stack, queue, sigVars, text, keyword,
                   searchVars, omniVars, parVars, findVars>>

FreshVisited(vis, l) == {l}

\* The visited set that dfs is given: the one Set of the whole call.
SharedVisited(vis, l) == vis \cup {l}

\* One node of this.nodes.forEach: a visited node is passed over; for another
\* node island is a new Set and dfs is called from the node, which visits it
\* (the callback adds each visited letter to island, kept in calls).
IslandsIter ==
    /\ pc = "islandLoop"
    /\ islandAt <= Len(nodes)
    /\ LET node == nodes[islandAt]
       IN  IF node.letter \in visited
           THEN /\ islandAt' = islandAt + 1
                /\ UNCHANGED <<stegVars, pc, visited, stack, calls>>
           ELSE /\ pc' = "islandDfs"
                /\ visited' = SharedVisited(visited, node.letter)
                /\ calls' = <<node.letter>>
                /\ stack' = <<[letter |-> node.letter, at |-> 1]>>
                /\ islandAt' = islandAt
    /\ UNCHANGED <<stegVars, nodes, netOut, queue, islands, sigVars, text, keyword,
                   searchVars, omniVars, parVars, findVars>>

RECURSIVE GematriaTotal(_, _)
GematriaTotal(ns, k) ==
    IF k > Len(ns) THEN 0 ELSE ns[k].gematria + GematriaTotal(ns, k + 1)

\* islands.forEach: the nodes of the island's letters that are keys, and the
\* sum of their gematria.
IslandEntry(ns, islandSet) ==
    LET found == SelectSeq(islandSet, LAMBDA l : has(ns, l))
        islandNodes == [j \in 1..Len(found) |-> getNode(ns, found[j])]
    IN  [nodes |-> islandNodes, totalGematria |-> GematriaTotal(islandNodes, 1)]

\* nodes.forEach is over: the islands are converted and returned.
IslandsReturn ==
    /\ pc = "islandLoop"
    /\ islandAt > Len(nodes)
    /\ pc' = "islandsDone"
    /\ netOut' = [op |-> "islands",
                  result |-> [k \in 1..Len(islands) |-> IslandEntry(nodes, islands[k])]]
    /\ UNCHANGED <<stegVars, nodes, travVars, sigVars, text, keyword,
                   searchVars, omniVars, parVars, findVars>>

NextNet ==
    \/ AddNode
    \/ DfsCall
    \/ DfsVisit
    \/ DfsSkip
    \/ DfsReturn
    \/ BfsCall
    \/ BfsStep
    \/ BfsReturn
    \/ IslandsCall
    \/ IslandsIter
    \/ IslandsReturn

SpecNet == InitNet /\ [][NextNet]_vars

\* A call that has started runs to its end: the code is synchronous, so each
\* step of a running traversal is taken.
Running ==
    \/ DfsVisit
    \/ DfsSkip
    \/ DfsReturn
    \/ BfsStep
    \/ BfsReturn
    \/ IslandsIter
    \/ IslandsReturn

SpecNetLive == InitNet /\ [][NextNet]_vars /\ WF_vars(Running)

\* ------------------------------------------------- claims on the network
\* Sum of the gematria of the nodes named by a path of keys.
RECURSIVE WeightSum(_, _)
WeightSum(ns, p) ==
    IF Len(p) = 0 THEN 0
    ELSE (CHOOSE n \in {ns[k] : k \in 1..Len(ns)} : n.letter = Head(p)).gematria
         + WeightSum(ns, Tail(p))

Keys(ns) == {ns[k].letter : k \in 1..Len(ns)}

AllKeys(ns, p) == \A k \in 1..Len(p) : p[k] \in Keys(ns)

C13_DuplicateFails ==
    (netOut.op = "addNode" /\ netOut.arg.letter \in Keys(netOut.before)) =>
        netOut.exit = "threw"

\* C13 amended: addNode with a letter that is a key already returns
\* normally after one console.warn naming the letter and leaves the map as
\* it was, the first node unchanged; addNode with a new letter appends the
\* node; the keys of the map are always distinct.
C13_DuplicateIgnored ==
    /\ \A i, j \in 1..Len(nodes) : nodes[i].letter = nodes[j].letter => i = j
    /\ netOut.op = "addNode" =>
          /\ netOut.exit = "returned"
          /\ IF netOut.arg.letter \in Keys(netOut.before)
             THEN /\ nodes = netOut.before
                  /\ Len(netOut.log) = 1
                  /\ netOut.log[1] = [level |-> "warn", letter |-> netOut.arg.letter]
             ELSE /\ nodes = Append(netOut.before, netOut.arg)
                  /\ netOut.log = <<>>

\* addNode was called with a letter that is a key and a node that differs
\* from the stored one.
C13_Witness ==
    /\ netOut.op = "addNode"
    /\ netOut.arg.letter \in Keys(netOut.before)
    /\ \A k \in 1..Len(nodes) : nodes[k] # netOut.arg
    /\ Len(nodes) = 2

\* Edges of the spelling relation between keys.
Edge(ns, x, y) ==
    /\ x \in Keys(ns) /\ y \in Keys(ns)
    /\ \E k \in 1..Len(ns) :
          ns[k].letter = x /\ \E j \in 1..Len(ns[k].spelling) : ns[k].spelling[j] = y

TwoCycle(ns, x, y) == x # y /\ Edge(ns, x, y) /\ Edge(ns, y, x)

\* C14: a dfs or breadthFirstSearch call that has started comes to its end
\* (it returns, or breadthFirstSearch ends with the TypeError of reading the
\* spelling of a letter that is not a key), on every graph, those with
\* self-loops and 2-cycles included.
C14_TraversalTerminates ==
    (pc \in {"dfs", "bfs"}) ~> (pc \in {"dfsDone", "bfsDone", "bfsThrew"})

\* A traversal has returned after visiting both nodes of a 2-cycle, one of
\* which spells itself.
C14_Witness ==
    /\ pc \in {"dfsDone", "bfsDone"}
    /\ \E x, y \in Keys(nodes) :
          /\ TwoCycle(nodes, x, y)
          /\ Edge(nodes, x, x)
          /\ \E i, j \in 1..Len(calls) : calls[i] = x /\ calls[j] = y

\* Keys that a walk along spelling edges reaches from the keys in S.
RECURSIVE ReachFrom(_, _)
ReachFrom(ns, S) ==
    LET more == S \cup {y \in Keys(ns) : \E x \in S : Edge(ns, x, y)}
    IN  IF more = S THEN S ELSE ReachFrom(ns, more)

Reachable(ns, start) == IF start \in Keys(ns) THEN ReachFrom(ns, {start}) ELSE {}

NoRepeat(s) == \A i, j \in 1..Len(s) : s[i] = s[j] => i = j

\* C15: during a dfs or breadthFirstSearch call the callback is invoked at
\* most once per node, and when the call has ended it has been invoked for
\* exactly the nodes that spelling edges reach from the start letter.
C15_CallbackOncePerReachableNode ==
    /\ pc \in {"dfs", "bfs", "dfsDone", "bfsDone", "bfsThrew"} => NoRepeat(calls)
    /\ pc \in {"dfsDone", "bfsDone", "bfsThrew"} =>
          {calls[k] : k \in 1..Len(calls)} = Reachable(nodes, netOut.start)

\* Places (island, position) at which a node occurs in the returned islands.
PlacesOf(res, n) ==
    {<<k, j>> \in (1..Len(res)) \X (1..Cardinality(Keys(nodes)) ) :
        j <= Len(res[k].nodes) /\ res[k].nodes[j] = n}

\* Letters of the nodes of one returned island, in order.
IslandLetters(entry) == [j \in 1..Len(entry.nodes) |-> entry.nodes[j].letter]

\* C16: the islands returned by identifyAndCalculateIslands are a partition
\* of the nodes: no island is empty, every node of the network is in exactly
\* one island, every member of an island is a node of the network, and an
\* island's totalGematria is the sum of its members' gematria.
C16_IslandsPartition ==
    pc = "islandsDone" =>
        LET res == netOut.result
        IN  /\ \A k \in 1..Len(res) : Len(res[k].nodes) > 0
            /\ \A n \in 1..Len(nodes) : Cardinality(PlacesOf(res, nodes[n])) = 1
            /\ \A k \in 1..Len(res) : \A j \in 1..Len(res[k].nodes) :
                  \E n \in 1..Len(nodes) : nodes[n] = res[k].nodes[j]
            /\ \A k \in 1..Len(res) :
                  res[k].totalGematria = WeightSum(nodes, IslandLetters(res[k]))

\* Three nodes were split into two islands, one of them of two nodes.
C16_Witness ==
    /\ pc = "islandsDone"
    /\ Len(nodes) = 3
    /\ Len(netOut.result) = 2
    /\ \E k \in 1..2 : Len(netOut.result[k].nodes) = 2
    /\ \A k \in 1..2 : netOut.result[k].totalGematria > 0

\* The returned island that holds the node of a letter (0: none).
IslandOf(res, l) ==
    IF \E k \in 1..Len(res) : \E j \in 1..Len(res[k].nodes) : res[k].nodes[j].letter = l
    THEN CHOOSE k \in 1..Len(res) :
             \E j \in 1..Len(res[k].nodes) : res[k].nodes[j].letter = l
    ELSE 0

\* The spelling of x holds y and nothing else.
SpellsOnly(ns, x, y) ==
    /\ Edge(ns, x, y)
    /\ \A k \in 1..Len(ns) : ns[k].letter = x =>
          \A j \in 1..Len(ns[k].spelling) : ns[k].spelling[j] = y

\* C17: two nodes X and Y whose only edges are X -> Y and Y -> X are in the
\* same returned island, whatever the order of the nodes in the map.
C17_TwoCycleSameIsland ==
    pc = "islandsDone" =>
        \A x, y \in Keys(nodes) :
            (x # y /\ SpellsOnly(nodes, x, y) /\ SpellsOnly(nodes, y, x)) =>
                /\ IslandOf(netOut.result, x) > 0
                /\ IslandOf(netOut.result, x) = IslandOf(netOut.result, y)

\* The islands of three nodes were returned: a 2-cycle whose second node
\* comes first in the map, and a third node in an island of its own.
C17_Witness ==
    /\ pc = "islandsDone"
    /\ Len(nodes) = 3
    /\ \E x, y \in Keys(nodes) :
          /\ x # y /\ SpellsOnly(nodes, x, y) /\ SpellsOnly(nodes, y, x)
          /\ KeyIndex(nodes, y) < KeyIndex(nodes, x)
          /\ IslandOf(netOut.result, x) = IslandOf(netOut.result, y)
    /\ Len(netOut.result) = 2

\* Keys joined to the keys in S by a path of edges read in either direction.
RECURSIVE JoinedTo(_, _)
JoinedTo(ns, S) ==
    LET more == S \cup {y \in Keys(ns) :
                           \E x \in S : Edge(ns, x, y) \/ Edge(ns, y, x)}
    IN  IF more = S THEN S ELSE JoinedTo(ns, more)

\* C18: the returned islands are the connected components of the graph with
\* its edges read as undirected: two nodes are in the same island exactly
\* when a path of edges, in either direction, joins them.
C18_IslandsAreComponents ==
    pc = "islandsDone" =>
        \A x, y \in Keys(nodes) :
            (IslandOf(netOut.result, x) = IslandOf(netOut.result, y))
                <=> (y \in JoinedTo(nodes, {x}))

\* ================================================ the significance scorer
\* identifySignificantElsFindings and checkForMeaningfulPhrases (hooks,
\* src/unnamed/part_003).  A reason is a record of its fixed wording (tag)
\* and of the string set into it (arg).
MaxScoreTextLen == 4

\* Code units of the scored texts: alef, bet, resh, samekh.
ScoreChars == {1488, 1489, 1512, 1505}

Reason(tag, arg) == [tag |-> tag, arg |-> arg]

RECURSIVE Flatten(_)
Flatten(ss) == IF Len(ss) = 0 THEN <<>> ELSE Head(ss) \o Flatten(Tail(ss))

StartsWith(str, pre) ==
    Len(pre) <= Len(str) /\ SubSeq(str, 1, Len(pre)) = pre

EndsWith(str, suf) ==
    Len(suf) <= Len(str) /\ SubSeq(str, Len(str) - Len(suf) + 1, Len(str)) = suf

\* String.prototype.includes
IncludesString(str, sub) ==
    \E k \in 0..(Len(str) - Len(sub)) : SubSeq(str, k + 1, k + Len(sub)) = sub

\* Array.prototype.includes
Includes(arr, x) == \E k \in 1..Len(arr) : arr[k] = x

\* String.prototype.substring: both ends are clamped to the string and
\* swapped when they come in the wrong order.
Substring(str, a, b) ==
    LET clamp(x) == IF x < 0 THEN 0 ELSE IF x > Len(str) THEN Len(str) ELSE x
        lo == IF clamp(a) <= clamp(b) THEN clamp(a) ELSE clamp(b)
        hi == IF clamp(a) <= clamp(b) THEN clamp(b) ELSE clamp(a)
    IN  SubSeq(str, lo + 1, hi)

\* text[index] || '' as a string
CharString(t, i) == IF CharAt(t, i) = Undefined THEN <<>> ELSE <<CharAt(t, i)>>

\* indices.map(index => text[index] || '').join('')
IndexedLetters(indices, t) ==
    Flatten([k \in 1..Len(indices) |-> CharString(t, indices[k])])

\* extractHebrewLetters: the 27 listed letters are the code units
\* U+05D0..U+05EA.
extractHebrewLetters(str) == SelectSeq(str, IsHebrewLetter)

commonHebrewRoots ==
    <<<<1511, 1491, 1513>>, <<1513, 1500, 1501>>, <<1489, 1512, 1488>>,
      <<1488, 1500, 1492>>, <<1513, 1502, 1497, 1501>>, <<1488, 1512, 1509>>,
      <<1495, 1497>>, <<1488, 1502, 1514>>, <<1499, 1500, 1497, 1500>>,
      <<1505, 1508, 1512>>, <<1506, 1493, 1500, 1501>>, <<1504, 1508, 1513>>,
      <<1512, 1493, 1495>>, <<1490, 1493, 1507>>, <<1491, 1506, 1514>>>>

commonHebrewPrefixes ==
    <<<<1489>>, <<1499>>, <<1500>>, <<1502>>, <<1513>>, <<1492>>, <<1493>>>>

commonHebrewSuffixes == <<<<1497, 1501>>, <<1493, 1514>>, <<1492>>>>

\* commonHebrewPhrases: each of the eight phrases holds a space, and no
\* string made of the code units of ScoreChars and the full stop does.
commonHebrewPhrases == <<>>

\* commonHebrewWords: the words of the list that are written with the code
\* units of ScoreChars: av, aba, bara.
commonHebrewWords ==
    <<<<1488, 1489>>, <<1488, 1489, 1488>>, <<1489, 1512, 1488>>>>

\* The combinations of the sequence with up to two letters before its first
\* index, up to two after its last index, and one on each side; each as
\* written and cleaned.
AdjacentCombinations(indices, t) ==
    LET firstIndex == indices[1]
        lastIndex == indices[Len(indices)]
        elsSequenceString == IndexedLetters(indices, t)
        cleanedSequenceLetters == cleanText(elsSequenceString)
        preceding(i) ==
            IF firstIndex - i >= 0
            THEN <<Substring(t, firstIndex - i, firstIndex) \o elsSequenceString,
                   cleanText(Substring(t, firstIndex - i, firstIndex))
                       \o cleanedSequenceLetters>>
            ELSE <<>>
        succeeding(i) ==
            IF lastIndex + i < Len(t)
            THEN <<elsSequenceString \o Substring(t, lastIndex + 1, lastIndex + 1 + i),
                   cleanedSequenceLetters
                       \o cleanText(Substring(t, lastIndex + 1, lastIndex + 1 + i))>>
            ELSE <<>>
        around ==
            IF firstIndex > 0 /\ lastIndex < Len(t) - 1
            THEN <<CharString(t, firstIndex - 1) \o elsSequenceString
                       \o CharString(t, lastIndex + 1),
                   cleanText(CharString(t, firstIndex - 1)) \o cleanedSequenceLetters
                       \o cleanText(CharString(t, lastIndex + 1))>>
            ELSE <<>>
    IN  preceding(1) \o preceding(2) \o succeeding(1) \o succeeding(2) \o around

\* adjacentCombinations.forEach: the reasons one combination adds, none of
\* them tested against the reasons already there.
ComboReasons(combo) ==
    LET cleanedCombo == cleanText(combo)
        pre == SelectSeq(commonHebrewPrefixes,
                         LAMBDA x : StartsWith(cleanedCombo, x) /\ Len(cleanedCombo) > Len(x))
        suf == SelectSeq(commonHebrewSuffixes,
                         LAMBDA x : EndsWith(cleanedCombo, x) /\ Len(cleanedCombo) > Len(x))
    IN  [k \in 1..Len(pre) |-> Reason("Combination starts with common prefix", pre[k])]
        \o [k \in 1..Len(suf) |-> Reason("Combination ends with common suffix", suf[k])]
        \o (IF Includes(commonHebrewWords, cleanedCombo)
            THEN <<Reason("Forms word with adjacent letters", cleanedCombo)>>
            ELSE <<>>)
        \o (IF Includes(commonHebrewPhrases, extractHebrewLetters(combo))
            THEN <<Reason("Forms a word with adjacent letters", cleanedCombo)>>
            ELSE <<>>)

\* stringsToCheck: the cleaned sequence, then the cleaned combinations.
StringsToCheck(indices, t) ==
    LET cleanedSequenceLetters == cleanText(IndexedLetters(indices, t))
        firstIndex == indices[1]
        lastIndex == indices[Len(indices)]
        preceding(i) ==
            IF firstIndex - i >= 0
            THEN <<cleanText(Substring(t, firstIndex - i, firstIndex))
                       \o cleanedSequenceLetters>>
            ELSE <<>>
        succeeding(i) ==
            IF lastIndex + i < Len(t)
            THEN <<cleanedSequenceLetters
                       \o cleanText(Substring(t, lastIndex + 1, lastIndex + 1 + i))>>
            ELSE <<>>
        around ==
            IF firstIndex > 0 /\ lastIndex < Len(t) - 1
            THEN <<cleanText(CharString(t, firstIndex - 1)) \o cleanedSequenceLetters
                       \o cleanText(CharString(t, lastIndex + 1))>>
            ELSE <<>>
    IN  <<cleanedSequenceLetters>>
        \o (IF Len(indices) > 0
            THEN preceding(1) \o preceding(2) \o succeeding(1) \o succeeding(2) \o around
            ELSE <<>>)

\* stringsToCheck.forEach: the reasons one string offers, in order; each is
\* pushed only when reasons does not include it yet.
StringCandidates(str) ==
    IF Len(str) = 0 THEN <<>>
    ELSE LET pre == SelectSeq(commonHebrewPrefixes,
                              LAMBDA x : StartsWith(str, x) /\ Len(str) > Len(x))
             suf == SelectSeq(commonHebrewSuffixes,
                              LAMBDA x : EndsWith(str, x) /\ Len(str) > Len(x))
             consonantSequence == SelectSeq(str, LAMBDA c : c # 1493 /\ c # 1497)
             roots == SelectSeq(commonHebrewRoots,
                                LAMBDA x : IncludesString(consonantSequence, x))
         IN  [k \in 1..Len(pre) |-> Reason("Starts with common prefix", pre[k])]
             \o [k \in 1..Len(suf) |-> Reason("Ends with common suffix", suf[k])]
             \o (IF Includes(commonHebrewWords, str)
                 THEN <<Reason("Forms the Hebrew word", str)>> ELSE <<>>)
             \o (IF Includes(commonHebrewPhrases, str)
                 THEN <<Reason("Forms the common Hebrew phrase", str)>> ELSE <<>>)
             \o [k \in 1..Len(roots) |-> Reason("Contains the root", roots[k])]

RECURSIVE PushNew(_, _)
PushNew(reasons, candidates) ==
    IF Len(candidates) = 0 THEN reasons
    ELSE PushNew(IF Includes(reasons, Head(candidates))
                 THEN reasons ELSE Append(reasons, Head(candidates)),
                 Tail(candidates))

\* checkForMeaningfulPhrases(indices, text)
checkForMeaningfulPhrases(indices, t) ==
    LET sequenceLetters == IndexedLetters(indices, t)
        cleanedSequenceLetters == cleanText(sequenceLetters)
        word == IF Includes(commonHebrewWords, cleanedSequenceLetters)
                THEN <<Reason("Forms the Hebrew word", cleanedSequenceLetters)>>
                ELSE <<>>
        phrase == IF Includes(commonHebrewPhrases, sequenceLetters)
                  THEN <<Reason("Forms the common Hebrew phrase", sequenceLetters)>>
                  ELSE IF Includes(commonHebrewPhrases, extractHebrewLetters(sequenceLetters))
                       THEN <<Reason("Forms the common Hebrew phrase (cleaned)",
                                     extractHebrewLetters(sequenceLetters))>>
                       ELSE <<>>
        combos == IF Len(indices) > 0 THEN AdjacentCombinations(indices, t) ELSE <<>>
        adjacent == Flatten([k \in 1..Len(combos) |-> ComboReasons(combos[k])])
        strings == StringsToCheck(indices, t)
    IN  PushNew(word \o phrase \o adjacent,
                Flatten([k \in 1..Len(strings) |-> StringCandidates(strings[k])]))

\* The network the hooks read: the exported populated network.
hebrewNetwork == hebrewAlphabetNetwork

\* calculateStringGematria(text, network)
calculateStringGematria(str, network) ==
    calculatePathGematria(network, cleanText(str)).ret

calculateStringGematriaHelperZero(str) == 0

\* calculateStringGematriaHelper(str): the path gematria, || 0
calculateStringGematriaHelper(str) ==
    LET g == calculatePathGematria(hebrewNetwork, extractHebrewLetters(str)).ret
    IN  IF g = 0 THEN 0 ELSE g

\* calculateNumberGematria(num) returns the number itself.
calculateNumberGematria(num) == num

tierGematriaValues == <<547, 500, 287, 81, 80>>
clusteringDistanceInclusive == 100 + 1

clusteringDistance == 100
highFrequencyThreshold == 3

\* getIslandLetters of the two names the scorer asks for.
PrimaryChainLetters == <<1494, 1497, 1504, 1493, 1491, 1500, 1514, 1502>>
IsolatedLetters == <<1489, 1490, 1492, 1495, 1496, 1506, 1510, 1511>>
\* getIslandLetters of the three other recognized names.
AlephPeyLoopLetters == <<1488, 1508>>
ReshShinIslandLetters == <<1512, 1513>>
SamekhKafIslandLetters == <<1505, 1499>>

loopLetters == <<1488, 1508, 1502, 1493>>
hubLetter == 1497

\* calculateIslandGematria(islandName) of a recognized island: the sum of
\* the nodes' gematria, or undefined when a letter is not a key.
calculateIslandGematria(ns, islandLetters) ==
    IF \A k \in 1..Len(islandLetters) : has(ns, islandLetters[k])
    THEN calculatePathGematria(ns, islandLetters).ret
    ELSE Undefined

\* skipFrequencies.get(skip) || 0: the Map keeps the value set last.
SkipFrequency(res, sk) ==
    IF \E k \in 1..Len(res) : res[k].skip = sk
    THEN LET last == CHOOSE k \in 1..Len(res) :
                         /\ res[k].skip = sk
                         /\ \A j \in (k + 1)..Len(res) : res[j].skip # sk
         IN  Len(res[last].indices)
    ELSE 0

When(cond, tag, arg) == IF cond THEN <<Reason(tag, arg)>> ELSE <<>>

\* The two island tags of one island name.  sequenceLetters holds Hebrew
\* letters only, and cleanText(char).toUpperCase() of one is the letter.
IslandReasons(sequenceLetters, islandLetters, primarily, majority) ==
    LET lettersInIsland == SelectSeq(sequenceLetters,
                                     LAMBDA c : Includes(islandLetters, c))
        n == Len(sequenceLetters)
    IN  IF Len(lettersInIsland) > 0 /\ Len(lettersInIsland) = n /\ n > 0
        THEN <<Reason(primarily, <<>>)>>
        ELSE IF Len(lettersInIsland) >= (n + 1) \div 2 /\ n > 0
             THEN <<Reason(majority, <<>>)>>
             ELSE <<>>

\* significanceReasons of the sequence at currentIndex of one result.
SignificanceReasons(res, result, currentIndex, kw, t) ==
    LET sequence == result.indices[currentIndex]
        sequenceGematria == calculateStringGematriaHelper(IndexedLetters(sequence, t))
        keywordGematria == calculateStringGematria(kw, hebrewNetwork)
        currentSkipFrequency == SkipFrequency(res, result.skip)
        isClustered ==
            \E otherIndex \in 1..Len(result.indices) :
                /\ currentIndex # otherIndex
                /\ Len(sequence) # 0
                /\ Len(result.indices[otherIndex]) # 0
                /\ LET d == sequence[1] - result.indices[otherIndex][1]
                   IN  (IF d < 0 THEN -d ELSE d) < clusteringDistance
        sequenceLetters == SelectSeq(IndexedLetters(sequence, t), IsHebrewLetter)
        skipGematria == calculateNumberGematria(result.skip)
        loopLettersGematria == calculateStringGematriaHelper(loopLetters)
        yudGematria == calculateStringGematriaHelper(<<hubLetter>>)
        tiers == SelectSeq([n \in 1..Len(tierGematriaValues) |-> n],
                           LAMBDA n : sequenceGematria = tierGematriaValues[n])
    IN  When(result.skip # 0 /\ result.skip = keywordGematria,
             "Skip matches keyword Gematria", <<>>)
        \o When(sequenceGematria = keywordGematria,
                "Sequence Gematria matches keyword Gematria", <<>>)
        \o When(currentSkipFrequency > 1, "Skip has multiple occurrences", <<>>)
        \o When(currentSkipFrequency >= highFrequencyThreshold,
                "High Skip Frequency", <<>>)
        \o When(isClustered, "Sequence is clustered", <<>>)
        \o IslandReasons(sequenceLetters, PrimaryChainLetters,
                         "Letters primarily from Primary Chain island",
                         "Majority of letters from Primary Chain island")
        \o IslandReasons(sequenceLetters, IsolatedLetters,
                         "Letters primarily from Isolated Letters island",
                         "Majority of letters from Isolated Letters island")
        \o When(LET islandGematria ==
                         calculateIslandGematria(hebrewNetwork, PrimaryChainLetters)
                 IN  islandGematria # Undefined /\ skipGematria = islandGematria,
                "Skip Gematria matches Primary Chain island Gematria", <<>>)
        \o When(LET islandGematria ==
                         calculateIslandGematria(hebrewNetwork, IsolatedLetters)
                 IN  islandGematria # Undefined /\ skipGematria = islandGematria,
                "Skip Gematria matches Isolated Letters island Gematria", <<>>)
        \o When(\E k \in 1..Len(sequenceLetters) :
                    Includes(loopLetters, sequenceLetters[k]),
                "Contains Loop letter(s)", <<>>)
        \o When(\E k \in 1..Len(sequenceLetters) :
                    sequenceLetters[k] = hubLetter,
                "Contains Hub letter (Yud)", <<>>)
        \o When(skipGematria # 0 /\ loopLettersGematria # 0
                    /\ skipGematria = loopLettersGematria,
                "Skip Gematria matches Loop Letters Gematria", <<>>)
        \o When(skipGematria # 0 /\ yudGematria # 0 /\ skipGematria = yudGematria,
                "Skip Gematria matches Yud Gematria", <<>>)
        \o [k \in 1..Len(tiers) |->
               Reason("Sequence Gematria matches Tier Gematria", <<tiers[k]>>)]
        \o checkForMeaningfulPhrases(sequence, t)

PushFindingAlways(found, sk, sequence, significanceReasons) ==
    Append(found, [skip |-> sk, indices |-> <<sequence>>,
                   significance |-> significanceReasons])

PushFindingFirst(found, sk, sequence, significanceReasons) ==
    IF Len(significanceReasons) > 0
    THEN <<[skip |-> sk, indices |-> <<sequence>>,
            significance |-> significanceReasons]>> \o found
    ELSE found

\* if (significanceReasons.length > 0) significantFindings.push(...)
PushFinding(found, sk, sequence, significanceReasons) ==
    IF Len(significanceReasons) > 0
    THEN Append(found, [skip |-> sk, indices |-> <<sequence>>,
                        significance |-> significanceReasons])
    ELSE found

\* results.forEach(result => result.indices.forEach(...)), from the sequence
\* at currentIndex of the result at r on.
RECURSIVE ScoreLoop(_, _, _, _, _, _)
ScoreLoop(res, r, currentIndex, kw, t, found) ==
    IF r > Len(res) THEN found
    ELSE IF currentIndex > Len(res[r].indices)
         THEN ScoreLoop(res, r + 1, 1, kw, t, found)
         ELSE ScoreLoop(res, r, currentIndex + 1, kw, t,
                        PushFinding(found, res[r].skip, res[r].indices[currentIndex],
                                    SignificanceReasons(res, res[r], currentIndex, kw, t)))

identifySignificantElsFindings(res, kw, t) == ScoreLoop(res, 1, 1, kw, t, <<>>)

\* --------------------------------------------- the scorer specification
\* Texts with a full stop between the letters, and the keywords searched
\* for and scored with.
ScoreExampleTexts ==
    {<<1512, 46, 1505>>, <<46, 1489, 1512, 1488>>, <<1512, 1505, 46, 1512, 1505>>}

\* Texts with two occurrences of resh samekh whose starts are 99, 100 and
\* 101 positions apart: n spaces between them.
Spaces(n) == [k \in 1..n |-> 32]
ScoreFarTexts ==
    {<<1512, 1505>> \o Spaces(96) \o <<1488, 1512, 1505>>,
     <<1512, 1505>> \o Spaces(97) \o <<1488, 1512, 1505>>,
     <<1512, 1505>> \o Spaces(98) \o <<1512, 1505>>,
     <<1512, 1505>> \o Spaces(99) \o <<1512, 1505>>}
ScoreTexts ==
    SeqsUpTo(ScoreChars, MaxScoreTextLen) \cup ScoreExampleTexts \cup ScoreFarTexts
ScoreKeywords ==
    {<<1512, 1505>>, <<1488>>, <<1489>>, <<1488, 1489>>, <<1489, 1512, 1488>>}

InitScore ==
    /\ text \in ScoreTexts
    /\ keyword \in ScoreKeywords
    /\ pc = "idle"
    /\ skipArg = 0
    /\ dirArg = "forward"
    /\ sres = NoResult
    /\ skip = 0
    /\ allFindings = <<>>
    /\ pending = {}
    /\ pairRes = <<>>
    /\ parFindings = <<>>
    /\ searchTerm = <<>>
    /\ contextualSeed = <<>>
    /\ findSkip = 0
    /\ results = <<>>
    /\ capStop = NoStop
    /\ NetIdle
    /\ SigIdle
    /\ StegIdle

\* identifySignificantElsFindings(results, keyword, text) is called with
\* the results of the sweep of the text and with any keyword.
ScoreCall ==
    /\ pc = "omniDone"
    /\ \E kw \in ScoreKeywords :
          /\ scoreKeyword' = kw
          /\ findings' = identifySignificantElsFindings(allFindings, kw, text)
    /\ scoreResults' = allFindings
    /\ pc' = "scored"
    /\ UNCHANGED <<stegVars, netVars, text, keyword, searchVars, omniVars, parVars, findVars>>

NextScore ==
    \/ OmniCall
    \/ OmniIter
    \/ OmniReturn
    \/ ScoreCall

SpecScore == InitScore /\ [][NextScore]_vars

\* ---------------------------------------------------- claims on the scorer
\* The matches of a result list in the order of the list: the place of the
\* result and the place of the sequence in it.
Occurrences(res) ==
    Flatten([r \in 1..Len(res) |->
                [i \in 1..Len(res[r].indices) |-> [r |-> r, i |-> i]]])

OccurrenceKey(res, o) == <<res[o.r].skip, res[o.r].indices[o.i]>>

ReportKey(f) == <<f.skip, f.indices[1]>>

Score(f) == Len(f.significance)

\* s is t with some elements left out.
RECURSIVE IsSubsequence(_, _)
IsSubsequence(s, t) ==
    IF Len(s) = 0 THEN TRUE
    ELSE IF Len(t) = 0 THEN FALSE
         ELSE IF Head(s) = Head(t)
              THEN IsSubsequence(Tail(s), Tail(t))
              ELSE IsSubsequence(s, Tail(t))

C20_ReportIffTagged ==
    pc = "scored" =>
        LET occ == Occurrences(scoreResults)
            reasonsOf(o) == SignificanceReasons(scoreResults, scoreResults[o.r], o.i,
                                                scoreKeyword, text)
            tagged == SelectSeq(occ, LAMBDA o : Len(reasonsOf(o)) > 0)
        IN  /\ \A k \in 1..Len(findings) : Len(findings[k].significance) > 0
            /\ Len(findings) = Len(tagged)
            /\ \A k \in 1..Len(tagged) :
                  /\ ReportKey(findings[k]) = OccurrenceKey(scoreResults, tagged[k])
                  /\ Len(findings[k].indices) = 1
                  /\ findings[k].significance = reasonsOf(tagged[k])

\* Of the matches scored, one had no tag and was dropped and another was
\* reported.
C20_Witness ==
    /\ pc = "scored"
    /\ Len(findings) > 0
    /\ Len(findings) < Len(Occurrences(scoreResults))
\* ------------------------------------------- claims on the contextual seed
\* The weight of a seed: the sum of the standard values of its letters.
SeedWeight(seed) ==
    LET RECURSIVE Sum(_)
        Sum(k) == IF k = 0 THEN 0 ELSE HebrewMapValue(seed[k]) + Sum(k - 1)
    IN  Sum(Len(seed))

Resolves(m, idx) == idx >= 0 /\ idx < Len(m)

\* The sequences all of whose indices resolve in m, translated by m.
Translated(m, seqs) ==
    LET kept == SelectSeq(seqs, LAMBDA q : \A j \in 1..Len(q) : Resolves(m, q[j]))
    IN  [k \in 1..Len(kept) |-> [j \in 1..Len(kept[k]) |-> m[kept[k][j] + 1]]]

WithoutLast(m) == SubSeq(m, 1, Len(m) - 1)

\* C22: every normalized index of every accepted sequence resolves to an
\* original index, so the search returns as many sequences as it accepted,
\* each the accepted one in original positions; and on a map that lacks an
\* entry the translation drops exactly the sequences that use the missing
\* index and keeps the others.
C22_MappingNeverDrops ==
    (pc = "searched" /\ sres.exit = "scanned") =>
        /\ \A k \in 1..Len(sres.found) : \A j \in 1..Len(sres.found[k]) :
              Resolves(sres.map, sres.found[k][j])
        /\ Len(sres.ret) = Len(sres.found)
        /\ \A k \in 1..Len(sres.found) :
              /\ Len(sres.ret[k]) = Len(sres.found[k])
              /\ \A j \in 1..Len(sres.found[k]) :
                    sres.ret[k][j] = LetterPos(text, sres.found[k][j])
        /\ MapAll(WithoutLast(sres.map), sres.found)
              = Translated(WithoutLast(sres.map), sres.found)

\* A search of a text with non-letters accepted two sequences, one of which
\* uses the last normalized index and one of which does not.
C22_Witness ==
    /\ pc = "searched" /\ sres.exit = "scanned"
    /\ Len(sres.map) < Len(text)
    /\ Len(keyword) = 2
    /\ \E a, b \in 1..Len(sres.found) :
          /\ \E j \in 1..Len(sres.found[a]) : sres.found[a][j] = Len(sres.map) - 1
          /\ \A j \in 1..Len(sres.found[b]) : sres.found[b][j] # Len(sres.map) - 1

\* ------------------------------------------------ claims on dead ends
\* The letters of spellings that are not keys of the graph.
DanglingLetters(ns) ==
    UNION {{ns[k].spelling[j] : j \in 1..Len(ns[k].spelling)} : k \in 1..Len(ns)}
        \ Keys(ns)

\* C23: on a graph with a spelling letter that is not a key, dfs and
\* breadthFirstSearch treat the letter as a dead end: the callback is only
\* ever invoked with nodes of the graph, the traversal does not fail, and
\* when it has returned the callback has been invoked for every node that
\* spelling edges reach from the start letter.
C23_NonKeyIsDeadEnd ==
    (pc \in {"dfs", "bfs", "dfsDone", "bfsDone", "bfsThrew"}
        /\ DanglingLetters(nodes) # {}) =>
        /\ pc # "bfsThrew"
        /\ \A k \in 1..Len(calls) : calls[k] \in Keys(nodes)
        /\ pc \in {"dfsDone", "bfsDone"} =>
              Reachable(nodes, netOut.start) \subseteq {calls[k] : k \in 1..Len(calls)}

\* ------------------------------------------------ claims on clustering
ClusterThreshold == 100

HasTag(significance, tag) ==
    \E k \in 1..Len(significance) : significance[k].tag = tag

\* Another match listed under the skip of occurrence o starts less than
\* the threshold away from it.
Near(res, o) ==
    \E r \in 1..Len(res) : \E i \in 1..Len(res[r].indices) :
        /\ <<r, i>> # <<o.r, o.i>>
        /\ res[r].skip = res[o.r].skip
        /\ Abs(res[r].indices[i][1] - res[o.r].indices[o.i][1]) < ClusterThreshold

\* The reports of the match at occurrence o: those with its skip and its
\* positions.
ReportsOf(o) ==
    {k \in 1..Len(findings) : ReportKey(findings[k]) = OccurrenceKey(scoreResults, o)}

\* The match at occurrence o is reported with the clustering tag.
Clustered(o) ==
    /\ ReportsOf(o) # {}
    /\ \A k \in ReportsOf(o) :
          HasTag(findings[k].significance, "Sequence is clustered")

\* C24: a match is reported with the tag "Sequence is clustered" exactly
\* when another match listed under the same skip starts less than 100
\* original positions away from it (no report of a match without such a
\* neighbour has the tag); hence of two such matches both have the tag.
C24_ClusteredIffNear ==
    pc = "scored" =>
        LET occ == Occurrences(scoreResults)
            startOf(o) == scoreResults[o.r].indices[o.i][1]
        IN  /\ \A k \in 1..Len(occ) :
                  IF Near(scoreResults, occ[k])
                  THEN Clustered(occ[k])
                  ELSE \A f \in ReportsOf(occ[k]) :
                           ~HasTag(findings[f].significance, "Sequence is clustered")
            /\ \A k, j \in 1..Len(occ) :
                  (/\ k # j
                   /\ scoreResults[occ[k].r].skip = scoreResults[occ[j].r].skip
                   /\ Abs(startOf(occ[k]) - startOf(occ[j])) < ClusterThreshold)
                  => (Clustered(occ[k]) /\ Clustered(occ[j]))

\* Under one skip two matches start at the same position and both have the
\* tag, and a third starts 100 positions from them, is reported and has not.
C24_Witness ==
    /\ pc = "scored"
    /\ \E r \in 1..Len(scoreResults) :
          \E a, b, c \in 1..Len(scoreResults[r].indices) :
              LET startOf(i) == scoreResults[r].indices[i][1]
                  o(i) == [r |-> r, i |-> i]
              IN  /\ a # b /\ startOf(a) = startOf(b)
                  /\ Clustered(o(a)) /\ Clustered(o(b))
                  /\ Abs(startOf(c) - startOf(a)) = ClusterThreshold
                  /\ ReportsOf(o(c)) # {}
                  /\ ~Clustered(o(c))

\* ------------------------------------------- claims on the list of reasons
\* C25: the reasons of a report form a set: no tag occurs more than once in
\* the significance list of any report.
C25_ReasonsFormASet ==
    pc = "scored" => \A k \in 1..Len(findings) : NoRepeat(findings[k].significance)

\* --------------------------------------- claims on the sequence gematria
\* The letters of the text at the positions of a match.
MatchedLetters(t, sequence) == [j \in 1..Len(sequence) |-> CharAt(t, sequence[j])]

\* C26: when the matches of a sweep are scored with the keyword of the
\* sweep, the matched letters of every match have the path weight of the
\* keyword, every match is reported, in order, one report per match, and
\* every report has the tag "Sequence Gematria matches keyword Gematria".
C26_SweepMatchesAlwaysTagged ==
    (pc = "scored" /\ scoreKeyword = keyword) =>
        LET occ == Occurrences(scoreResults) IN
        /\ Len(findings) = Len(occ)
        /\ \A k \in 1..Len(occ) :
              /\ WeightSum(hebrewAlphabetNetwork,
                           MatchedLetters(text, scoreResults[occ[k].r].indices[occ[k].i]))
                    = WeightSum(hebrewAlphabetNetwork, LettersOf(keyword))
              /\ ReportKey(findings[k]) = OccurrenceKey(scoreResults, occ[k])
              /\ HasTag(findings[k].significance,
                        "Sequence Gematria matches keyword Gematria")

\* The matches of a sweep in a text with a non-letter were scored with the
\* keyword of the sweep, and a report has that tag and no other.
C26_Witness ==
    /\ pc = "scored" /\ scoreKeyword = keyword
    /\ Len(keyword) >= 2
    /\ Len(LettersOf(text)) < Len(text)
    /\ \E k \in 1..Len(findings) :
          /\ Len(findings[k].significance) = 1
          /\ HasTag(findings[k].significance,
                    "Sequence Gematria matches keyword Gematria")

\* --------------------------------------- claims on the range of the sweep
\* The original positions of the occurrence of ck read from normalized
\* index start with the signed step.
OccurrenceAt(t, ck, start, step) ==
    [j \in 1..Len(ck) |-> LetterPos(t, start + (j - 1) * step)]

\* The sweep result lists sequence q under skip k.
Listed(k, q) ==
    \E e \in 1..Len(allFindings) :
        /\ allFindings[e].skip = k
        /\ \E i \in 1..Len(allFindings[e].indices) : allFindings[e].indices[i] = q

\* Every occurrence with a skip in 1..top, forward or backward, is listed.
ListsAllUpTo(top) ==
    LET ct == LettersOf(text)
        ck == LettersOf(keyword)
    IN  \A k \in 1..top : \A start \in 0..(Len(ct) - 1) : \A sign \in {1, -1} :
            (Len(ck) >= 1 /\ Reads(ct, ck, start, sign * k))
                => Listed(k, OccurrenceAt(text, ck, start, sign * k))

\* C27 as stated: the sweep result lists every occurrence of the keyword,
\* at every start and every positive skip (skips up to the length of the
\* normalized text are looked at), forward and backward.
C27_SweepMissesNothing ==
    pc = "omniDone" => ListsAllUpTo(Len(LettersOf(text)))

\* C27 amended: the sweep result lists every occurrence whose skip is at
\* most half the length of the normalized text, rounded down, and nothing
\* under a larger skip.
C27_CompleteUpToHalfLength ==
    pc = "omniDone" =>
        /\ ListsAllUpTo(Len(LettersOf(text)) \div 2)
        /\ \A e \in 1..Len(allFindings) :
              allFindings[e].skip <= Len(LettersOf(text)) \div 2

\* The sweep has returned occurrences of a two-letter keyword under the
\* largest skip of its range, and an occurrence with a larger skip exists
\* and is not listed.
C27_Witness ==
    /\ pc = "omniDone"
    /\ Len(LettersOf(keyword)) = 2
    /\ LET n == Len(LettersOf(text))
       IN  /\ n \div 2 >= 2
           /\ \E e \in 1..Len(allFindings) : allFindings[e].skip = n \div 2
           /\ \E k \in (n \div 2 + 1)..n : \E start \in 0..(n - 1) :
                 /\ Reads(LettersOf(text), LettersOf(keyword), start, k)
                 /\ ~Listed(k, OccurrenceAt(text, LettersOf(keyword), start, k))

\* ------------------------------------- claims on the merged match lists
\* C28: the match list of any one skip of the sweep result (the forward
\* matches followed by the backward matches) holds no position sequence
\* twice.
C28_NoSequenceTwicePerSkip ==
    \A e \in 1..Len(allFindings) : NoRepeat(allFindings[e].indices)

\* ------------------------------------------------ decodeCorporaFromImage
MaxBookLen == 3
MaxVerseLen == 2

\* Code units of book names (1, 2, a, space) and of book texts (a, 1).
BookChars == {49, 50, 97, 32}
VerseChars == {97, 49}

\* /\d/ and /\D/
IsDigit(c) == c >= 48 /\ c <= 57

\* The decimal digits of a positive count, as in `${count}`.
RECURSIVE ToDecimal(_)
ToDecimal(n) ==
    IF n < 10 THEN <<48 + n>> ELSE ToDecimal(n \div 10) \o <<48 + (n % 10)>>

\* parseInt of a string of decimal digits.
RECURSIVE ParseInt(_)
ParseInt(digits) ==
    IF Len(digits) = 0 THEN 0
    ELSE 10 * ParseInt(SubSeq(digits, 1, Len(digits) - 1))
         + (digits[Len(digits)] - 48)

\* char.repeat(n)
Repeat(c, n) == [k \in 1..n |-> c]

\* The loop of simpleCompress from position i on: input[i + 1] past the
\* end is undefined and equals no character.
RECURSIVE CompressLoop(_, _, _, _)
CompressLoop(input, i, count, output) ==
    IF i < Len(input)
    THEN IF CharAt(input, i) = CharAt(input, i + 1)
         THEN CompressLoop(input, i + 1, count + 1, output)
         ELSE CompressLoop(input, i + 1, 1,
                  output \o (IF count > 1
                             THEN ToDecimal(count) \o <<CharAt(input, i)>>
                             ELSE <<CharAt(input, i)>>))
    ELSE output

simpleCompress(input) == CompressLoop(input, 0, 1, <<>>)

\* input.replace(/(\d+)(\D)/g, ...) from position i on: a run of digits with
\* a non-digit after it is replaced by the non-digit repeated; a character
\* that starts no match, and a run of digits at the end, stay.
RECURSIVE DecompressFrom(_, _)
DecompressFrom(input, i) ==
    IF i >= Len(input) THEN <<>>
    ELSE IF ~IsDigit(CharAt(input, i))
         THEN <<CharAt(input, i)>> \o DecompressFrom(input, i + 1)
         ELSE LET e == CHOOSE p \in i..Len(input) :
                           /\ p = Len(input) \/ ~IsDigit(CharAt(input, p))
                           /\ \A q \in i..(p - 1) : IsDigit(CharAt(input, q))
              IN  IF e = Len(input)
                  THEN SubSeq(input, i + 1, Len(input))
                  ELSE Repeat(CharAt(input, e), ParseInt(SubSeq(input, i + 1, e)))
                       \o DecompressFrom(input, e + 1)

simpleDecompress(input) == DecompressFrom(input, 0)

\* JSON.stringify of an object with one book: {"book":"text"} (the strings
\* of the payloads need no escapes).
JsonStringify(c) ==
    <<123, 34>> \o c.book \o <<34, 58, 34>> \o c.text \o <<34, 125>>

\* JSON.parse of a text: a SyntaxError unless the text is an object with one
\* string key and one string value, white space allowed between the tokens.
JsonParse(s) ==
    LET quotes == {p \in 1..Len(s) : s[p] = 34}
        nth(n) == CHOOSE p \in quotes : Cardinality({q \in quotes : q < p}) = n - 1
        Token(from, to, c) ==
            /\ \E p \in from..to : s[p] = c
            /\ Cardinality({p \in from..to : s[p] # 32}) = 1
        NoControl(from, to) == \A p \in from..to : s[p] >= 32 /\ s[p] # 92
    IN  IF /\ Cardinality(quotes) = 4
           /\ Token(1, nth(1) - 1, 123)
           /\ Token(nth(2) + 1, nth(3) - 1, 58)
           /\ Token(nth(4) + 1, Len(s), 125)
           /\ NoControl(nth(1) + 1, nth(2) - 1)
           /\ NoControl(nth(3) + 1, nth(4) - 1)
        THEN [threw |-> FALSE,
              value |-> [book |-> SubSeq(s, nth(1) + 1, nth(2) - 1),
                         text |-> SubSeq(s, nth(3) + 1, nth(4) - 1)]]
        ELSE [threw |-> TRUE, value |-> NoCorpora]

\* The payloads: every short book name and text, and a book of the payload
\* of getCorporaPayload, "1 Samuel", with the first letters of its text.
ExampleCorpora ==
    [book |-> <<49, 32, 83, 97, 109, 117, 101, 108>>, text |-> <<1493, 1497, 1492>>]
Payloads ==
    {[book |-> b, text |-> v] :
        b \in SeqsUpTo(BookChars, MaxBookLen) \ {<<>>},
        v \in SeqsUpTo(VerseChars, MaxVerseLen)} \cup {ExampleCorpora}

InitSteg ==
    /\ corpora \in Payloads
    /\ compressedData = <<>>
    /\ decompressedData = <<>>
    /\ finalCorpora = NoCorpora
    /\ pc = "idle"
    /\ text = <<>>
    /\ keyword = <<>>
    /\ skipArg = 0
    /\ dirArg = "forward"
    /\ sres = NoResult
    /\ skip = 0
    /\ allFindings = <<>>
    /\ pending = {}
    /\ pairRes = <<>>
    /\ parFindings = <<>>
    /\ searchTerm = <<>>
    /\ contextualSeed = <<>>
    /\ findSkip = 0
    /\ results = <<>>
    /\ capStop = NoStop
    /\ NetIdle
    /\ SigIdle

\* The executor of the promise: the payload is stringified, compressed,
\* decompressed and parsed; a SyntaxError of JSON.parse is caught and the
\* promise rejected.
DecodeCall ==
    /\ pc = "idle"
    /\ LET stringifiedCorpora == JsonStringify(corpora)
           compressed == simpleCompress(stringifiedCorpora)
           decompressed == simpleDecompress(compressed)
           parsed == JsonParse(decompressed)
       IN  /\ compressedData' = compressed
           /\ decompressedData' = decompressed
           /\ finalCorpora' = parsed.value
           /\ pc' = IF parsed.threw THEN "rejected" ELSE "decoding"
    /\ UNCHANGED <<corpora, netVars, sigVars, text, keyword, searchVars, omniVars,
                   parVars, findVars>>

\* The timer fires: resolve(finalCorpora).
DecodeResolve ==
    /\ pc = "decoding"
    /\ pc' = "resolved"
    /\ UNCHANGED <<stegVars, netVars, sigVars, text, keyword, searchVars, omniVars,
                   parVars, findVars>>

NextSteg ==
    \/ DecodeCall
    \/ DecodeResolve

SpecSteg == InitSteg /\ [][NextSteg]_vars

\* ------------------------------------------------ claims on the decoding
\* C29: decoding is lossless: the decompressed text is the stringified
\* payload that was compressed, the promise is never rejected, and it
\* resolves with the payload, book name and text unchanged.
C29_DecodingLossless ==
    /\ pc # "rejected"
    /\ pc \in {"decoding", "resolved"} =>
          /\ decompressedData = JsonStringify(corpora)
          /\ finalCorpora = corpora

\* ----------------------------------- claims on computed and named islands
\* The five named islands and the letters they name between them.
NamedIslands ==
    <<PrimaryChainLetters, AlephPeyLoopLetters, ReshShinIslandLetters,
      SamekhKafIslandLetters, IsolatedLetters>>
NamedIslandOf(l) ==
    CHOOSE n \in 1..Len(NamedIslands) :
        \E j \in 1..Len(NamedIslands[n]) : NamedIslands[n][j] = l
BaseLetters ==
    UNION {{NamedIslands[n][j] : j \in 1..Len(NamedIslands[n])} :
              n \in 1..Len(NamedIslands)}

\* C30: on the built-in spelling graph two base letters are in the same
\* island returned by identifyAndCalculateIslands exactly when they are in
\* the same named island of getIslandLetters.
C30_ComputedIslandsAreNamedIslands ==
    (pc = "islandsDone" /\ nodes = hebrewAlphabetNetwork) =>
        \A x, y \in BaseLetters :
            (IslandOf(netOut.result, x) = IslandOf(netOut.result, y))
                <=> (NamedIslandOf(x) = NamedIslandOf(y))

====
